---- MODULE Spec2Model ----
(***************************************************************************)
(* Archy executor daemon: the completion detector, the request pipeline    *)
(* of handle_client and the output format classifier.                      *)
(*                                                                         *)
(* Text is a sequence of one-character strings, so that trimming, line     *)
(* splitting, lower-casing and substring search are computed as the Rust   *)
(* code computes them.  Option<T> is a sequence of length at most one:     *)
(* None is <<>> and Some(x) is <<x>>.                                      *)
(***************************************************************************)
EXTENDS Integers, Sequences, FiniteSets, TLC

(***************************************************************************)
(* Characters that need a name.                                            *)
(***************************************************************************)
LF == "\n"
TAB == "\t"
CR == "\r"
DQ == "\""
BoxBar == "U+2502"
GlyphRight == "U+276F"
GlyphLeft == "U+276E"
GlyphBolt == "U+26A1"

None == <<>>
Some(x) == <<x>>

(***************************************************************************)
(* str helpers of the Rust standard library, as used by the code.          *)
(***************************************************************************)
UpperChars == <<"A", "B", "C", "D", "E", "F", "G", "H", "I", "J", "K", "L", "M",
                "N", "O", "P", "Q", "R", "S", "T", "U", "V", "W", "X", "Y", "Z">>
LowerChars == <<"a", "b", "c", "d", "e", "f", "g", "h", "i", "j", "k", "l", "m",
                "n", "o", "p", "q", "r", "s", "t", "u", "v", "w", "x", "y", "z">>

LowerChar(c) ==
    IF \E i \in 1..Len(UpperChars) : UpperChars[i] = c
    THEN LowerChars[CHOOSE i \in 1..Len(UpperChars) : UpperChars[i] = c]
    ELSE c

ToLowercase(s) == [i \in 1..Len(s) |-> LowerChar(s[i])]

Contains(s, pat) ==
    \E i \in 0..(Len(s) - Len(pat)) : SubSeq(s, i + 1, i + Len(pat)) = pat

ContainsChar(s, c) == \E i \in 1..Len(s) : s[i] = c

StartsWithChar(s, c) == Len(s) > 0 /\ s[1] = c

Whitespace == {" ", LF, TAB, CR}

RECURSIVE TrimStart(_)
TrimStart(s) ==
    IF Len(s) > 0 /\ s[1] \in Whitespace THEN TrimStart(Tail(s)) ELSE s

RECURSIVE TrimEnd(_)
TrimEnd(s) ==
    IF Len(s) > 0 /\ s[Len(s)] \in Whitespace
    THEN TrimEnd(SubSeq(s, 1, Len(s) - 1))
    ELSE s

Trim(s) == TrimEnd(TrimStart(s))

\* s.split('\n'): never empty; a trailing LF yields a final empty piece.
RECURSIVE SplitNewline(_)
SplitNewline(s) ==
    IF ~ContainsChar(s, LF) THEN <<s>>
    ELSE LET i == CHOOSE k \in 1..Len(s) :
                    s[k] = LF /\ \A j \in 1..(k - 1) : s[j] # LF
         IN  <<SubSeq(s, 1, i - 1)>> \o SplitNewline(SubSeq(s, i + 1, Len(s)))

StripCR(l) == IF Len(l) > 0 /\ l[Len(l)] = CR THEN SubSeq(l, 1, Len(l) - 1) ELSE l

\* s.lines(): split on LF, no final empty line, a trailing CR is dropped.
Lines(s) ==
    LET parts == SplitNewline(s)
        kept  == IF parts[Len(parts)] = <<>>
                 THEN SubSeq(parts, 1, Len(parts) - 1)
                 ELSE parts
    IN  [i \in 1..Len(kept) |-> StripCR(kept[i])]

\* lines.last() of current_output.trim().split('\n')
LastLine(text) == LET parts == SplitNewline(Trim(text)) IN parts[Len(parts)]

Min(a, b) == IF a < b THEN a ELSE b
Max(a, b) == IF a > b THEN a ELSE b

(***************************************************************************)
(* More str helpers of the Rust standard library, as the extractors of     *)
(* parser.rs use them.                                                     *)
(***************************************************************************)
BSL == "\\"

Concat(a, b) == a \o b

RECURSIVE Flatten(_)
Flatten(ss) == IF ss = <<>> THEN <<>> ELSE Head(ss) \o Flatten(Tail(ss))

\* [String]::join(sep)
RECURSIVE Join(_, _)
Join(ss, sep) ==
    IF ss = <<>> THEN <<>>
    ELSE IF Len(ss) = 1 THEN ss[1]
    ELSE ss[1] \o sep \o Join(Tail(ss), sep)

\* pat occurs in s at index i (from 1)
MatchesAt(s, i, pat) ==
    i + Len(pat) - 1 <= Len(s) /\ SubSeq(s, i, i + Len(pat) - 1) = pat

StartsWith(s, pat) == Len(s) >= Len(pat) /\ SubSeq(s, 1, Len(pat)) = pat

EndsWith(s, pat) ==
    Len(s) >= Len(pat) /\ SubSeq(s, Len(s) - Len(pat) + 1, Len(s)) = pat

\* str::find(pat): the index (from 0) of the first occurrence, or None.
Find(s, pat) ==
    IF Contains(s, pat)
    THEN Some(CHOOSE i \in 0..(Len(s) - Len(pat)) :
                /\ SubSeq(s, i + 1, i + Len(pat)) = pat
                /\ \A j \in 0..(i - 1) : SubSeq(s, j + 1, j + Len(pat)) # pat)
    ELSE None

\* str::replace(pat, ""): every non-overlapping occurrence, left to right.
RECURSIVE RemoveAll(_, _)
RemoveAll(s, pat) ==
    IF Find(s, pat) = None THEN s
    ELSE LET i == Find(s, pat)[1]
         IN  SubSeq(s, 1, i) \o RemoveAll(SubSeq(s, i + Len(pat) + 1, Len(s)), pat)

\* str::trim_end_matches(c)
RECURSIVE TrimEndMatches(_, _)
TrimEndMatches(s, c) ==
    IF Len(s) > 0 /\ s[Len(s)] = c
    THEN TrimEndMatches(SubSeq(s, 1, Len(s) - 1), c)
    ELSE s

\* str::split_whitespace(): the maximal runs of non-whitespace characters.
RECURSIVE SplitWhitespace(_)
SplitWhitespace(s) ==
    LET t == TrimStart(s)
    IN  IF t = <<>> THEN <<>>
        ELSE LET n == IF \E k \in 1..Len(t) : t[k] \in Whitespace
                      THEN (CHOOSE k \in 1..Len(t) :
                                /\ t[k] \in Whitespace
                                /\ \A j \in 1..(k - 1) : t[j] \notin Whitespace) - 1
                      ELSE Len(t)
             IN  <<SubSeq(t, 1, n)>> \o SplitWhitespace(SubSeq(t, n + 1, Len(t)))

\* char::is_alphabetic, on the characters the inputs are made of.
IsAlphabetic(c) ==
    \E i \in 1..Len(LowerChars) : LowerChars[i] = c \/ UpperChars[i] = c

DigitChars == <<"0", "1", "2", "3", "4", "5", "6", "7", "8", "9">>

IsDigit(c) == \E i \in 1..10 : DigitChars[i] = c

DigitValue(c) == (CHOOSE i \in 1..10 : DigitChars[i] = c) - 1

\* usize / integer Display: the decimal digits of n >= 0.
RECURSIVE ToDecimal(_)
ToDecimal(n) ==
    IF n < 10 THEN <<DigitChars[n + 1]>>
    ELSE ToDecimal(n \div 10) \o <<DigitChars[(n % 10) + 1]>>

\* str::len counts bytes: the prompt glyphs, the box-drawing bar and the
\* replacement character take three bytes in UTF-8, the other characters of
\* the inputs one.
ByteWidth(c) == IF c \in {BoxBar, GlyphRight, GlyphLeft, GlyphBolt, "U+FFFD"} THEN 3 ELSE 1

ByteLen(s) == Len(s) + 2 * Cardinality({i \in 1..Len(s) : ByteWidth(s[i]) = 3})

(***************************************************************************)
(* Unsigned integers wider than those of TLC are kept as their            *)
(* decimal digits (most significant first, no leading zero except "0").    *)
(***************************************************************************)
RECURSIVE StripLeadingZeros(_)
StripLeadingZeros(d) ==
    IF Len(d) > 1 /\ d[1] = "0" THEN StripLeadingZeros(Tail(d)) ELSE d

\* a < b on normalised digit strings
RECURSIVE DecLess(_, _)
DecLess(a, b) ==
    IF Len(a) # Len(b) THEN Len(a) < Len(b)
    ELSE IF a = <<>> THEN FALSE
    ELSE IF a[1] # b[1] THEN DigitValue(a[1]) < DigitValue(b[1])
    ELSE DecLess(Tail(a), Tail(b))

PadLeft(d, n) == [i \in 1..n |-> IF i <= n - Len(d) THEN "0" ELSE d[i - (n - Len(d))]]

\* digit-wise a + b with carry, from the least significant digit
RECURSIVE DecAddPadded(_, _, _)
DecAddPadded(a, b, carry) ==
    IF a = <<>> THEN (IF carry = 0 THEN <<>> ELSE <<DigitChars[carry + 1]>>)
    ELSE LET n == Len(a)
             t == DigitValue(a[n]) + DigitValue(b[n]) + carry
         IN  DecAddPadded(SubSeq(a, 1, n - 1), SubSeq(b, 1, n - 1), t \div 10)
                 \o <<DigitChars[(t % 10) + 1]>>

DecAdd(a, b) ==
    LET n == Max(Len(a), Len(b))
    IN  StripLeadingZeros(DecAddPadded(PadLeft(a, n), PadLeft(b, n), 0))

\* digit-wise a - b for a >= b
RECURSIVE DecSubPadded(_, _, _)
DecSubPadded(a, b, borrow) ==
    IF a = <<>> THEN <<>>
    ELSE LET n == Len(a)
             t == DigitValue(a[n]) - DigitValue(b[n]) - borrow
         IN  DecSubPadded(SubSeq(a, 1, n - 1), SubSeq(b, 1, n - 1),
                          IF t < 0 THEN 1 ELSE 0)
                 \o <<DigitChars[(IF t < 0 THEN t + 10 ELSE t) + 1]>>

DecSub(a, b) ==
    LET n == Max(Len(a), Len(b))
    IN  StripLeadingZeros(DecSubPadded(PadLeft(a, n), PadLeft(b, n), 0))

U8_MAX == <<"2", "5", "5">>
U64_MAX == <<"1", "8", "4", "4", "6", "7", "4", "4", "0", "7", "3", "7", "0", "9",
             "5", "5", "1", "6", "1", "5">>
TWO_POW_64 == DecAdd(U64_MAX, <<"1">>)

\* <unsigned>::from_str: an optional '+', then one or more ASCII digits whose
\* value is at most max.  Ok(digits) or Err.
ParseUnsigned(s, max) ==
    LET body == IF Len(s) > 0 /\ s[1] = "+" THEN Tail(s) ELSE s
    IN  IF body = <<>> \/ \E i \in 1..Len(body) : ~IsDigit(body[i])
        THEN [ok |-> FALSE, value |-> <<>>]
        ELSE IF DecLess(max, StripLeadingZeros(body))
        THEN [ok |-> FALSE, value |-> <<>>]
        ELSE [ok |-> TRUE, value |-> StripLeadingZeros(body)]

RECURSIVE DecToInt(_)
DecToInt(d) ==
    IF d = <<>> THEN 0 ELSE 10 * DecToInt(SubSeq(d, 1, Len(d) - 1)) + DigitValue(d[Len(d)])

\* str::parse::<u8>()
ParseU8(s) ==
    LET r == ParseUnsigned(s, U8_MAX)
    IN  IF r.ok THEN [ok |-> TRUE, value |-> DecToInt(r.value)]
        ELSE [ok |-> FALSE, value |-> 0]

\* str::parse::<u64>()
ParseU64(s) == ParseUnsigned(s, U64_MAX)

(***************************************************************************)
(* parser.rs: detect_format                                                *)
(***************************************************************************)
S_nmap == <<"n", "m", "a", "p">>
S_netstat == <<"n", "e", "t", "s", "t", "a", "t">>
S_ss == <<"s", "s">>
S_ps == <<"p", "s">>
S_top == <<"t", "o", "p">>
S_ls == <<"l", "s">>
S_dash_l == <<"-", "l">>
S_long == <<"-", "-", "l", "o", "n", "g">>
S_ip == <<"i", "p">>
S_addr == <<"a", "d", "d", "r">>
S_ip_a == <<"i", "p", " ", "a">>
S_systemctl == <<"s", "y", "s", "t", "e", "m", "c", "t", "l">>
S_df == <<"d", "f">>
S_lsblk == <<"l", "s", "b", "l", "k">>
S_journalctl == <<"j", "o", "u", "r", "n", "a", "l", "c", "t", "l">>
S_starting_nmap == <<"s", "t", "a", "r", "t", "i", "n", "g", " ", "n", "m", "a", "p">>
S_host_is_up == <<"h", "o", "s", "t", " ", "i", "s", " ", "u", "p">>
S_tcp == <<"t", "c", "p">>
S_established == <<"e", "s", "t", "a", "b", "l", "i", "s", "h", "e", "d">>

SeparatorLineCount(output) ==
    Cardinality({i \in 1..Len(Lines(output)) :
                    ContainsChar(Lines(output)[i], "|")
                    \/ ContainsChar(Lines(output)[i], BoxBar)})

\* Lines 72: more than three lines hold a separator.
ManySeparatorLines_AtLeastThree(output) == SeparatorLineCount(output) >= 3

ManySeparatorLines(output) == SeparatorLineCount(output) > 3

\* Lines 47-65 with the rules for df and ps/top exchanged.
CommandTier_DfBeforePs(lower_cmd) ==
    IF Contains(lower_cmd, S_nmap) THEN "nmap"
    ELSE IF Contains(lower_cmd, S_netstat) \/ Contains(lower_cmd, S_ss)
         THEN "network_table"
    ELSE IF Contains(lower_cmd, S_df) THEN "disk_usage"
    ELSE IF Contains(lower_cmd, S_ls)
            /\ (Contains(lower_cmd, S_dash_l) \/ Contains(lower_cmd, S_long))
         THEN "ls_long"
    ELSE IF Contains(lower_cmd, S_ip)
            /\ (Contains(lower_cmd, S_addr) \/ Contains(lower_cmd, S_ip_a)
                \/ lower_cmd = S_ip_a)
         THEN "ip_addr"
    ELSE IF Contains(lower_cmd, S_systemctl) THEN "systemctl"
    ELSE IF Contains(lower_cmd, S_ps) \/ Contains(lower_cmd, S_top)
         THEN "process_table"
    ELSE IF Contains(lower_cmd, S_lsblk) THEN "block_devices"
    ELSE IF Contains(lower_cmd, S_journalctl) THEN "journalctl"
    ELSE "no_match"

\* Lines 47-65: the checks by command name; "no_match" when the chain of
\* else-ifs falls through to line 67.
CommandTier(lower_cmd) ==
    IF Contains(lower_cmd, S_nmap) THEN "nmap"
    ELSE IF Contains(lower_cmd, S_netstat) \/ Contains(lower_cmd, S_ss)
         THEN "network_table"
    ELSE IF Contains(lower_cmd, S_ps) \/ Contains(lower_cmd, S_top)
         THEN "process_table"
    ELSE IF Contains(lower_cmd, S_ls)
            /\ (Contains(lower_cmd, S_dash_l) \/ Contains(lower_cmd, S_long))
         THEN "ls_long"
    ELSE IF Contains(lower_cmd, S_ip)
            /\ (Contains(lower_cmd, S_addr) \/ Contains(lower_cmd, S_ip_a)
                \/ lower_cmd = S_ip_a)
         THEN "ip_addr"
    ELSE IF Contains(lower_cmd, S_systemctl) THEN "systemctl"
    ELSE IF Contains(lower_cmd, S_df) THEN "disk_usage"
    ELSE IF Contains(lower_cmd, S_lsblk) THEN "block_devices"
    ELSE IF Contains(lower_cmd, S_journalctl) THEN "journalctl"
    ELSE "no_match"

\* Lines 68-78: the checks by content.
ContentTier(output, lower_output) ==
    IF Contains(lower_output, S_starting_nmap) \/ Contains(lower_output, S_host_is_up)
    THEN "nmap"
    ELSE IF Contains(lower_output, S_tcp) /\ Contains(lower_output, S_established)
    THEN "network_table"
    ELSE IF ManySeparatorLines(output) THEN "table"
    ELSE IF StartsWithChar(output, "{") \/ StartsWithChar(output, "[") THEN "json"
    ELSE "plain_text"

DetectFormat(output, command) ==
    LET lower_cmd    == ToLowercase(command)
        lower_output == ToLowercase(output)
    IN  IF CommandTier(lower_cmd) # "no_match"
        THEN CommandTier(lower_cmd)
        ELSE ContentTier(output, lower_output)

(***************************************************************************)
(* parser.rs: Finding, Metadata, ParsedOutput.  The text of a message or   *)
(* summary keeps each literal piece of its format string as one element.   *)
(* extractor names the parse_* function that built the record; panicked    *)
(* tells that the call did not return.                                     *)
(***************************************************************************)
Finding(category, message, importance) ==
    [category |-> category, message |-> message, importance |-> importance]

Metadata(line_count, byte_count, format_detected) ==
    [line_count |-> line_count, byte_count |-> byte_count, duration_ms |-> None,
     format_detected |-> format_detected]

ParsedOutput(extractor, raw, structured, findings, summary, metadata) ==
    [panicked |-> FALSE, extractor |-> extractor, raw |-> raw,
     structured |-> structured, findings |-> findings, summary |-> summary,
     metadata |-> metadata]

Panicked(extractor) ==
    [panicked |-> TRUE, extractor |-> extractor, raw |-> <<>>, structured |-> <<>>,
     findings |-> <<>>, summary |-> <<>>, metadata |-> <<>>]

Count(seq, Test(_)) == Len(SelectSeq(seq, Test))

\* A finding pushed only when cond holds.
PushIf(cond, finding) == IF cond THEN <<finding>> ELSE <<>>

S_slash_tcp == <<"/", "t", "c", "p">>
S_open == <<"o", "p", "e", "n">>
S_listen == <<"l", "i", "s", "t", "e", "n">>
S_pid == <<"p", "i", "d">>
S_dot_service == <<".", "s", "e", "r", "v", "i", "c", "e">>
S_active == <<"a", "c", "t", "i", "v", "e">>
S_running == <<"r", "u", "n", "n", "i", "n", "g">>
S_failed == <<"f", "a", "i", "l", "e", "d">>
S_error == <<"e", "r", "r", "o", "r">>
S_fail == <<"f", "a", "i", "l">>
S_warning == <<"w", "a", "r", "n", "i", "n", "g">>
S_warn == <<"w", "a", "r", "n">>
S_inet == <<"i", "n", "e", "t">>

(***************************************************************************)
(* parser.rs: parse_nmap                                                   *)
(***************************************************************************)
parse_nmap(raw, metadata) ==
    LET lines      == Lines(raw)
        hosts_up   == Count(lines, LAMBDA l : Contains(ToLowercase(l), S_host_is_up))
        port_lines == SelectSeq(lines, LAMBDA l :
                          Contains(l, S_slash_tcp) /\ Contains(ToLowercase(l), S_open))
        \* such a line holds "/tcp", so parts.first() is Some
        open_ports == [i \in 1..Len(port_lines) |-> SplitWhitespace(port_lines[i])[1]]
        with_svc   == SelectSeq(port_lines, LAMBDA l : Len(SplitWhitespace(l)) > 2)
        services   == [i \in 1..Len(with_svc) |-> SplitWhitespace(with_svc[i])[3]]
        findings   ==
            PushIf(hosts_up > 0,
                   Finding("Host Count",
                           <<"Found ">> \o ToDecimal(hosts_up)
                               \o <<" active host(s) on network">>,
                           IF hosts_up > 10 THEN "High" ELSE "Medium"))
            \o PushIf(open_ports # <<>>,
                   Finding("Open Ports",
                           <<"Detected ">> \o ToDecimal(Len(open_ports))
                               \o <<" open port(s): ">> \o Join(open_ports, <<", ">>),
                           "High"))
            \o PushIf(services # <<>>,
                   Finding("Services",
                           <<"Services detected: ">> \o Join(services, <<", ">>),
                           "Info"))
        structured == [hosts_up |-> hosts_up, open_ports |-> open_ports,
                       services |-> services, scan_type |-> "nmap"]
        summary    == IF hosts_up > 0
                      THEN <<"Network scan complete - ">> \o ToDecimal(hosts_up)
                               \o <<" hosts active, ">> \o ToDecimal(Len(open_ports))
                               \o <<" open ports">>
                      ELSE <<"Network scan complete - no hosts detected">>
    IN  ParsedOutput("parse_nmap", raw, structured, findings, summary, metadata)

(***************************************************************************)
(* parser.rs: parse_network_table                                          *)
(***************************************************************************)
parse_network_table(raw, metadata) ==
    LET lines       == Lines(raw)
        est_lines   == SelectSeq(lines, LAMBDA l : Contains(ToLowercase(l), S_established))
        established == Len(est_lines)
        listening   == Count(lines, LAMBDA l :
                           /\ ~Contains(ToLowercase(l), S_established)
                           /\ Contains(ToLowercase(l), S_listen))
        rows        == SelectSeq(est_lines, LAMBDA l : Len(SplitWhitespace(l)) >= 5)
        connections == [i \in 1..Len(rows) |->
                           LET parts == SplitWhitespace(rows[i])
                           IN  [protocol |-> parts[1], local |-> parts[4],
                                remote |-> parts[5], state |-> "ESTABLISHED"]]
        findings    ==
            PushIf(established > 0,
                   Finding("Active Connections",
                           ToDecimal(established) \o <<" established connection(s)">>,
                           IF established > 50 THEN "High" ELSE "Info"))
            \o PushIf(listening > 0,
                   Finding("Listening Ports",
                           ToDecimal(listening) \o <<" listening port(s)">>, "Info"))
        structured  == [connections |-> connections, established_count |-> established,
                        listening_count |-> listening]
        summary     == ToDecimal(established) \o <<" established, ">>
                           \o ToDecimal(listening) \o <<" listening">>
    IN  ParsedOutput("parse_network_table", raw, structured, findings, summary, metadata)

(***************************************************************************)
(* parser.rs: parse_process_table                                          *)
(***************************************************************************)
parse_process_table(raw, metadata) ==
    LET process_count == Count(Lines(raw), LAMBDA l :
                             Trim(l) # <<>> /\ ~Contains(ToLowercase(l), S_pid))
        findings   == PushIf(process_count > 0,
                          Finding("Process Count",
                                  ToDecimal(process_count) \o <<" process(es) listed">>,
                                  "Info"))
        structured == [process_count |-> process_count, type |-> "process_list"]
        summary    == ToDecimal(process_count) \o <<" processes">>
    IN  ParsedOutput("parse_process_table", raw, structured, findings, summary, metadata)

(***************************************************************************)
(* parser.rs: parse_ls_long.  total_size is a u64: `total_size += size`    *)
(* panics on overflow in a build with overflow checks and wraps otherwise. *)
(***************************************************************************)
RECURSIVE AddSizes(_, _, _)
AddSizes(total_size, sizes, overflow_checks) ==
    IF sizes = <<>> THEN [panicked |-> FALSE, value |-> total_size]
    ELSE LET sum == DecAdd(total_size, Head(sizes))
         IN  IF DecLess(U64_MAX, sum)
             THEN IF overflow_checks
                  THEN [panicked |-> TRUE, value |-> total_size]
                  ELSE AddSizes(DecSub(sum, TWO_POW_64), Tail(sizes), overflow_checks)
             ELSE AddSizes(sum, Tail(sizes), overflow_checks)

parse_ls_long(raw, metadata, overflow_checks) ==
    LET lines       == Lines(raw)
        directories == Count(lines, LAMBDA l : StartsWithChar(l, "d"))
        file_lines  == SelectSeq(lines, LAMBDA l : StartsWithChar(l, "-"))
        files       == Len(file_lines)
        sized       == SelectSeq(file_lines, LAMBDA l :
                           /\ Len(SplitWhitespace(l)) > 4
                           /\ ParseU64(SplitWhitespace(l)[5]).ok)
        sizes       == [i \in 1..Len(sized) |-> ParseU64(SplitWhitespace(sized[i])[5]).value]
        total       == AddSizes(<<"0">>, sizes, overflow_checks)
        findings    == PushIf(files > 0 \/ directories > 0,
                           Finding("Directory Contents",
                                   ToDecimal(files) \o <<" file(s), ">>
                                       \o ToDecimal(directories) \o <<" director(ies)">>,
                                   "Info"))
        structured  == [files |-> files, directories |-> directories,
                        total_size_bytes |-> total.value]
        summary     == ToDecimal(files) \o <<" files, ">> \o ToDecimal(directories)
                           \o <<" directories">>
    IN  IF total.panicked THEN Panicked("parse_ls_long")
        ELSE ParsedOutput("parse_ls_long", raw, structured, findings, summary, metadata)

(***************************************************************************)
(* parser.rs: parse_ip_addr.  The two regular expressions are matched as   *)
(* the regex crate matches them: leftmost, greedy.                         *)
(***************************************************************************)
CharAt(s, i) == IF i \in 1..Len(s) THEN s[i] ELSE ""

\* how many consecutive characters from index i on satisfy Test
Span(s, i, Test(_)) ==
    (CHOOSE k \in i..(Len(s) + 1) :
        /\ \A j \in i..(k - 1) : Test(s[j])
        /\ (k = Len(s) + 1 \/ ~Test(s[k]))) - i

IsSpace(c) == c \in Whitespace
IsNonSpace(c) == c \notin Whitespace

\* ^\d+:\s+(\S+):   the capture group, or None
re_interface(line) ==
    LET d   == Span(line, 1, IsDigit)
        w   == Span(line, d + 2, IsSpace)
        a   == d + 2 + w
        run == Span(line, a, IsNonSpace)
        ks  == {k \in (a + 1)..(a + run - 1) : line[k] = ":"}
    IN  IF d >= 1 /\ CharAt(line, d + 1) = ":" /\ w >= 1 /\ ks # {}
        THEN Some(SubSeq(line, a, (CHOOSE k \in ks : \A m \in ks : m <= k) - 1))
        ELSE None

\* \d+ followed by the character c, from index a: the index after c, or 0
DigitsThen(line, a, c) ==
    IF a > 0 /\ Span(line, a, IsDigit) >= 1 /\ CharAt(line, a + Span(line, a, IsDigit)) = c
    THEN a + Span(line, a, IsDigit) + 1
    ELSE 0

\* \d+ from index a: the index after the digits, or 0
DigitsEnd(line, a) ==
    IF a > 0 /\ Span(line, a, IsDigit) >= 1 THEN a + Span(line, a, IsDigit) ELSE 0

\* \d+\.\d+\.\d+\.\d+/\d+ at index a: the index after the match, or 0
Ipv4End(line, a) ==
    DigitsEnd(line,
        DigitsThen(line, DigitsThen(line, DigitsThen(line, DigitsThen(line, a, "."), "."), "."),
                   "/"))

Ipv4Capture(line, a, e) == IF e > 0 THEN Some(SubSeq(line, a, e - 1)) ELSE None

Ipv4At(line, i) ==
    IF MatchesAt(line, i, S_inet) /\ Span(line, i + 4, IsSpace) >= 1
    THEN Ipv4Capture(line, i + 4 + Span(line, i + 4, IsSpace),
                     Ipv4End(line, i + 4 + Span(line, i + 4, IsSpace)))
    ELSE None

FirstIpv4(line, starts) ==
    IF starts = {} THEN None
    ELSE Ipv4At(line, CHOOSE i \in starts : \A j \in starts : i <= j)

\* inet\s+(\d+\.\d+\.\d+\.\d+/\d+)   the capture group, or None
re_ipv4(line) == FirstIpv4(line, {i \in 1..Len(line) : Ipv4At(line, i) # None})

\* Lines 325-335: the capture of every line the regex matches, in line order
CaptureAll(lines, Re(_)) ==
    LET hits == SelectSeq(lines, LAMBDA l : Re(l) # None)
    IN  [i \in 1..Len(hits) |-> Re(hits[i])[1]]

IpAddrOutput(raw, metadata, interfaces, ipv4_addresses) ==
    ParsedOutput("parse_ip_addr", raw,
                 [interfaces |-> interfaces, ipv4_addresses |-> ipv4_addresses],
                 PushIf(interfaces # <<>>,
                        Finding("Network Interfaces",
                                ToDecimal(Len(interfaces)) \o <<" interface(s) detected: ">>
                                    \o Join(interfaces, <<", ">>),
                                "Info"))
                 \o PushIf(ipv4_addresses # <<>>,
                        Finding("IP Addresses",
                                ToDecimal(Len(ipv4_addresses)) \o <<" IPv4 address(es): ">>
                                    \o Join(ipv4_addresses, <<", ">>),
                                "Info")),
                 ToDecimal(Len(interfaces)) \o <<" interfaces, ">>
                     \o ToDecimal(Len(ipv4_addresses)) \o <<" IPs">>,
                 metadata)

parse_ip_addr(raw, metadata) ==
    IpAddrOutput(raw, metadata, CaptureAll(Lines(raw), re_interface), CaptureAll(Lines(raw), re_ipv4))

(***************************************************************************)
(* parser.rs: parse_systemctl                                              *)
(***************************************************************************)
\* Lines 378-383: the first column, when it names a service.
IsServiceLine(line) ==
    LET parts == SplitWhitespace(line)
    IN  parts # <<>> /\ Contains(parts[1], S_dot_service)

ServiceName_Unstripped(line) == SplitWhitespace(line)[1]

ServiceName(line) == RemoveAll(SplitWhitespace(line)[1], S_dot_service)

\* Lines 385-389: "active", "failed" or "other"
ServiceState(line) ==
    LET lower == ToLowercase(line)
    IN  IF Contains(lower, S_active) /\ Contains(lower, S_running) THEN "active"
        ELSE IF Contains(lower, S_failed) THEN "failed"
        ELSE "other"

parse_systemctl(raw, metadata) ==
    LET svc_lines    == SelectSeq(Lines(raw), IsServiceLine)
        active_lines == SelectSeq(svc_lines, LAMBDA l : ServiceState(l) = "active")
        failed_lines == SelectSeq(svc_lines, LAMBDA l : ServiceState(l) = "failed")
        active_services == [i \in 1..Len(active_lines) |-> ServiceName(active_lines[i])]
        failed_services == [i \in 1..Len(failed_lines) |-> ServiceName(failed_lines[i])]
        findings ==
            PushIf(failed_services # <<>>,
                   Finding("Failed Services",
                           ToDecimal(Len(failed_services))
                               \o <<" service(s) in failed state: ">>
                               \o Join(failed_services, <<", ">>),
                           "High"))
            \o PushIf(active_services # <<>>,
                   Finding("Active Services",
                           ToDecimal(Len(active_services))
                               \o <<" service(s) active and running">>,
                           "Info"))
        structured == [active_count |-> Len(active_services),
                       failed_count |-> Len(failed_services),
                       active_services |-> active_services,
                       failed_services |-> failed_services]
        summary == IF failed_services # <<>>
                   THEN ToDecimal(Len(failed_services)) \o <<" failed services: ">>
                            \o Join(failed_services, <<", ">>)
                   ELSE ToDecimal(Len(active_services)) \o <<" active, ">>
                            \o ToDecimal(Len(failed_services)) \o <<" failed">>
    IN  ParsedOutput("parse_systemctl", raw, structured, findings, summary, metadata)

(***************************************************************************)
(* parser.rs: parse_disk_usage                                             *)
(***************************************************************************)
PartOr(parts, i, d) == IF i <= Len(parts) THEN parts[i] ELSE d

\* Lines 442-443 without trim_end_matches('%').
UsageOf_Untrimmed(parts) ==
    LET with_pct == SelectSeq(parts, LAMBDA p : EndsWith(p, <<"%">>))
    IN  IF with_pct = <<>> THEN [ok |-> FALSE, value |-> 0]
        ELSE ParseU8(with_pct[1])

\* Lines 442-443: the first column that ends in '%', parsed as u8.
UsageOf(parts) ==
    LET with_pct == SelectSeq(parts, LAMBDA p : EndsWith(p, <<"%">>))
    IN  IF with_pct = <<>> THEN [ok |-> FALSE, value |-> 0]
        ELSE ParseU8(TrimEndMatches(with_pct[1], "%"))

\* Lines 439-443: the row is accepted.
DiskRowAccepted(line) ==
    /\ ContainsChar(line, "%")
    /\ Len(SplitWhitespace(line)) >= 5
    /\ UsageOf(SplitWhitespace(line)).ok

\* Lines 444-451
DiskEntry(line) ==
    LET parts == SplitWhitespace(line)
    IN  [filesystem |-> parts[1], size |-> PartOr(parts, 2, <<>>),
         used |-> PartOr(parts, 3, <<>>), available |-> PartOr(parts, 4, <<>>),
         usage_percent |-> UsageOf(parts).value, mount |-> PartOr(parts, 6, <<>>)]

DiskFindings_Inclusive(filesystem, usage) ==
    LET message == filesystem \o <<" is ">> \o ToDecimal(usage) \o <<"% full">>
    IN  IF usage >= 90 THEN <<Finding("Disk Space Critical", message, "Critical")>>
        ELSE IF usage >= 80 THEN <<Finding("Disk Space Warning", message, "High")>>
        ELSE <<>>

\* Lines 453-465: the findings one accepted row adds.
DiskFindings(filesystem, usage) ==
    LET message == filesystem \o <<" is ">> \o ToDecimal(usage) \o <<"% full">>
    IN  IF usage > 90 THEN <<Finding("Disk Space Critical", message, "Critical")>>
        ELSE IF usage > 80 THEN <<Finding("Disk Space Warning", message, "High")>>
        ELSE <<>>

parse_disk_usage(raw, metadata) ==
    LET rows        == SelectSeq(Lines(raw), DiskRowAccepted)
        filesystems == [i \in 1..Len(rows) |-> DiskEntry(rows[i])]
        findings    == Flatten([i \in 1..Len(filesystems) |->
                           DiskFindings(filesystems[i].filesystem,
                                        filesystems[i].usage_percent)])
        structured  == [filesystems |-> filesystems]
        summary     == ToDecimal(Len(filesystems)) \o <<" filesystem(s) checked">>
    IN  ParsedOutput("parse_disk_usage", raw, structured, findings, summary, metadata)

(***************************************************************************)
(* serde_json: Value, from_str and to_string, for texts made of            *)
(* whitespace, null, true, false, integers without fraction or exponent,   *)
(* strings with the escapes \" \\ \/ \n \t \r, arrays and objects.  An     *)
(* object is a map from its keys: a repeated key keeps the last value.     *)
(***************************************************************************)
JNull == [t |-> "null"]
JBool(b) == [t |-> "bool", b |-> b]
JNum(n) == [t |-> "num", n |-> n]
JStr(s) == [t |-> "str", s |-> s]
JArr(a) == [t |-> "arr", a |-> a]
JObj(o) == [t |-> "obj", o |-> o]

JFail == [ok |-> FALSE, value |-> JNull, next |-> 0]
JOk(value, next) == [ok |-> TRUE, value |-> value, next |-> next]

SkipWs(s, i) == i + Span(s, i, IsSpace)

\* The characters of a string up to its closing quote; i is the index after
\* the opening quote.  A raw control character ends the parse with an error.
RECURSIVE StrBody(_, _, _)
StrBody(s, i, acc) ==
    LET c == CharAt(s, i)
        e == CharAt(s, i + 1)
    IN  IF c = "" \/ c \in {LF, TAB, CR} THEN JFail
        ELSE IF c = DQ THEN JOk(acc, i + 1)
        ELSE IF c = BSL
        THEN IF e \in {DQ, BSL, "/"} THEN StrBody(s, i + 2, Append(acc, e))
             ELSE IF e = "n" THEN StrBody(s, i + 2, Append(acc, LF))
             ELSE IF e = "t" THEN StrBody(s, i + 2, Append(acc, TAB))
             ELSE IF e = "r" THEN StrBody(s, i + 2, Append(acc, CR))
             ELSE JFail
        ELSE StrBody(s, i + 1, Append(acc, c))

\* An integer at index i: an optional '-', then "0" or a digit string that
\* does not start with 0.
JNumber(s, i) ==
    LET neg == CharAt(s, i) = "-"
        a   == IF neg THEN i + 1 ELSE i
        d   == Span(s, a, IsDigit)
        v   == DecToInt(SubSeq(s, a, a + d - 1))
    IN  IF d = 0 \/ (d > 1 /\ s[a] = "0") THEN JFail
        ELSE JOk(JNum(IF neg THEN 0 - v ELSE v), a + d)

JLiteral(s, i, word, value) ==
    IF MatchesAt(s, i, word) THEN JOk(value, i + Len(word)) ELSE JFail

RECURSIVE JValue(_, _)
RECURSIVE JItems(_, _, _)
RECURSIVE JMembers(_, _, _)

\* the value that starts at index i (whitespace already skipped)
JValue(s, i) ==
    LET c == CharAt(s, i)
    IN  IF c = "{" THEN JMembers(s, i + 1, <<>>)
        ELSE IF c = "[" THEN JItems(s, i + 1, <<>>)
        ELSE IF c = DQ
        THEN LET r == StrBody(s, i + 1, <<>>)
             IN  IF r.ok THEN JOk(JStr(r.value), r.next) ELSE JFail
        ELSE IF c = "-" \/ IsDigit(c) THEN JNumber(s, i)
        ELSE IF c = "t" THEN JLiteral(s, i, <<"t", "r", "u", "e">>, JBool(TRUE))
        ELSE IF c = "f" THEN JLiteral(s, i, <<"f", "a", "l", "s", "e">>, JBool(FALSE))
        ELSE IF c = "n" THEN JLiteral(s, i, <<"n", "u", "l", "l">>, JNull)
        ELSE JFail

\* the items of an array after '[' or after a comma
JItems(s, i, acc) ==
    LET j == SkipWs(s, i)
    IN  IF acc = <<>> /\ CharAt(s, j) = "]" /\ CharAt(s, i - 1) = "["
        THEN JOk(JArr(<<>>), j + 1)
        ELSE LET v == JValue(s, j)
                 k == SkipWs(s, v.next)
             IN  IF ~v.ok THEN JFail
                 ELSE IF CharAt(s, k) = "," THEN JItems(s, k + 1, Append(acc, v.value))
                 ELSE IF CharAt(s, k) = "]" THEN JOk(JArr(Append(acc, v.value)), k + 1)
                 ELSE JFail

\* the members of an object after '{' or after a comma; acc is the map so far
JMembers(s, i, acc) ==
    LET j == SkipWs(s, i)
    IN  IF DOMAIN acc = {} /\ CharAt(s, j) = "}" /\ CharAt(s, i - 1) = "{"
        THEN JOk(JObj(<<>>), j + 1)
        ELSE IF CharAt(s, j) # DQ THEN JFail
        ELSE LET key == StrBody(s, j + 1, <<>>)
                 c   == SkipWs(s, key.next)
                 v   == JValue(s, SkipWs(s, c + 1))
                 k   == SkipWs(s, v.next)
                 map == [x \in (DOMAIN acc) \cup {key.value} |->
                            IF x = key.value THEN v.value ELSE acc[x]]
             IN  IF ~key.ok \/ CharAt(s, c) # ":" THEN JFail
                 ELSE IF ~v.ok THEN JFail
                 ELSE IF CharAt(s, k) = "," THEN JMembers(s, k + 1, map)
                 ELSE IF CharAt(s, k) = "}" THEN JOk(JObj(map), k + 1)
                 ELSE JFail

\* serde_json::from_str::<Value>: one value, then only whitespace.
from_str(raw) ==
    LET r == JValue(raw, SkipWs(raw, 1))
    IN  IF r.ok /\ SkipWs(raw, r.next) = Len(raw) + 1
        THEN [ok |-> TRUE, value |-> r.value]
        ELSE [ok |-> FALSE, value |-> JNull]

\* the escaped form of one character of a string
JEscape(c) ==
    IF c = DQ THEN <<BSL, DQ>>
    ELSE IF c = BSL THEN <<BSL, BSL>>
    ELSE IF c = LF THEN <<BSL, "n">>
    ELSE IF c = TAB THEN <<BSL, "t">>
    ELSE IF c = CR THEN <<BSL, "r">>
    ELSE <<c>>

JQuote(s) == <<DQ>> \o Flatten([i \in 1..Len(s) |-> JEscape(s[i])]) \o <<DQ>>

\* some enumeration of a finite set, each element once
RECURSIVE SeqOf(_)
SeqOf(S) == IF S = {} THEN <<>> ELSE LET x == CHOOSE y \in S : TRUE IN <<x>> \o SeqOf(S \ {x})

\* serde_json::to_string: the compact text.  The members of an object come
\* in the order of the map, which does not matter to a reader of the text.
RECURSIVE to_string(_)
to_string(v) ==
    IF v.t = "null" THEN <<"n", "u", "l", "l">>
    ELSE IF v.t = "bool"
    THEN (IF v.b THEN <<"t", "r", "u", "e">> ELSE <<"f", "a", "l", "s", "e">>)
    ELSE IF v.t = "num"
    THEN (IF v.n < 0 THEN <<"-">> \o ToDecimal(0 - v.n) ELSE ToDecimal(v.n))
    ELSE IF v.t = "str" THEN JQuote(v.s)
    ELSE IF v.t = "arr"
    THEN <<"[">> \o Join([i \in 1..Len(v.a) |-> to_string(v.a[i])], <<",">>) \o <<"]">>
    ELSE LET keys == SeqOf(DOMAIN v.o)
         IN  <<"{">>
             \o Join([i \in 1..Len(keys) |->
                         JQuote(keys[i]) \o <<":">> \o to_string(v.o[keys[i]])], <<",">>)
             \o <<"}">>

(***************************************************************************)
(* parser.rs: parse_json                                                   *)
(***************************************************************************)
JsonFallback_Null(raw) == JNull

\* Line 491: json!({ "raw": raw })
JsonFallback(raw) == JObj([k \in {<<"r", "a", "w">>} |-> JStr(raw)])

\* Lines 489-492: the parsed value, or the fallback object
JsonStructured(raw, r) == IF r.ok THEN r.value ELSE JsonFallback(raw)

parse_json(raw, metadata) ==
    ParsedOutput("parse_json", raw, JsonStructured(raw, from_str(raw)),
                 <<Finding("Format", <<"JSON data detected and parsed">>, "Info")>>,
                 <<"JSON data parsed successfully">>, metadata)

(***************************************************************************)
(* parser.rs: parse_journalctl.  failed_services is a HashSet: the order   *)
(* in which it is iterated is not fixed, so the caller of the model's      *)
(* operator supplies it (hash_order, an enumeration of the set).           *)
(***************************************************************************)
IsErrorLine(line) ==
    LET lower == ToLowercase(line)
    IN  Contains(lower, S_error) \/ Contains(lower, S_failed) \/ Contains(lower, S_fail)

IsWarningLine(line) ==
    LET lower == ToLowercase(line)
    IN  ~IsErrorLine(line) /\ (Contains(lower, S_warning) \/ Contains(lower, S_warn))

\* Lines 524-530: the text from the first letter up to ".service", or None
JournalService(line) ==
    IF ~Contains(ToLowercase(line), S_dot_service)
       \/ ~\E i \in 1..Len(line) : IsAlphabetic(line[i])
    THEN None
    ELSE LET start == CHOOSE i \in 1..Len(line) :
                          IsAlphabetic(line[i]) /\ \A j \in 1..(i - 1) : ~IsAlphabetic(line[j])
             rest  == SubSeq(line, start, Len(line))
         IN  IF Find(rest, S_dot_service) = None THEN None
             ELSE Some(SubSeq(rest, 1, Find(rest, S_dot_service)[1]))

JournalFailedServices(raw) ==
    LET errors == SelectSeq(Lines(raw), IsErrorLine)
    IN  {JournalService(errors[i])[1] :
            i \in {k \in 1..Len(errors) : JournalService(errors[k]) # None}}

\* the enumerations of a finite set, each element once
Orderings(S) ==
    {f \in [1..Cardinality(S) -> S] : \A i, j \in 1..Cardinality(S) : f[i] = f[j] => i = j}

\* take(10) left out: the whole list
Take_All(seq, n) == seq

Take(seq, n) == SubSeq(seq, 1, Min(n, Len(seq)))

parse_journalctl(raw, metadata, hash_order) ==
    LET lines    == Lines(raw)
        errors   == SelectSeq(lines, IsErrorLine)
        warnings == SelectSeq(lines, IsWarningLine)
        failed_services == JournalFailedServices(raw)
        findings ==
            PushIf(errors # <<>>,
                   Finding("Errors",
                           ToDecimal(Len(errors)) \o <<" error(s) found in logs">>, "High"))
            \o PushIf(warnings # <<>>,
                   Finding("Warnings",
                           ToDecimal(Len(warnings)) \o <<" warning(s) found in logs">>,
                           "Medium"))
            \o PushIf(failed_services # {},
                   Finding("Failed Services",
                           <<"Services with issues: ">> \o Join(hash_order, <<", ">>),
                           "High"))
        structured == [error_count |-> Len(errors), warning_count |-> Len(warnings),
                       failed_services |-> hash_order,
                       errors |-> Take(errors, 10), warnings |-> Take(warnings, 10)]
        summary == IF errors # <<>> \/ warnings # <<>>
                   THEN ToDecimal(Len(errors)) \o <<" error(s), ">>
                            \o ToDecimal(Len(warnings)) \o <<" warning(s) in logs">>
                   ELSE <<"No errors or warnings found">>
    IN  ParsedOutput("parse_journalctl", raw, structured, findings, summary, metadata)

(***************************************************************************)
(* parser.rs: parse_generic                                                *)
(***************************************************************************)
\* Lines 587-604 with the lines counted again, by the line feeds.
parse_generic_Recount(raw, metadata) ==
    ParsedOutput("parse_generic", raw,
                 [type |-> "plain_text", line_count |-> Len(SplitNewline(raw))],
                 <<>>,
                 <<"Output captured (">> \o ToDecimal(Len(SplitNewline(raw))) \o <<" lines)">>,
                 [metadata EXCEPT !.line_count = Len(SplitNewline(raw))])

parse_generic(raw, metadata) ==
    ParsedOutput("parse_generic", raw,
                 [type |-> "plain_text", line_count |-> metadata.line_count],
                 <<>>,
                 <<"Output captured (">> \o ToDecimal(metadata.line_count) \o <<" lines)">>,
                 metadata)

(***************************************************************************)
(* parser.rs: parse_intelligently.  overflow_checks is the build's setting *)
(* and hash_order the iteration order of the journalctl HashSet.           *)
(***************************************************************************)
\* Lines 94-105 with the catch-all arm taken for every format.
Dispatch_AlwaysGeneric(format, raw, metadata, overflow_checks, hash_order) ==
    parse_generic(raw, metadata)

\* Lines 94-105: the match on the format
Dispatch(format, raw, metadata, overflow_checks, hash_order) ==
    CASE format = "nmap" -> parse_nmap(raw, metadata)
      [] format = "network_table" -> parse_network_table(raw, metadata)
      [] format = "process_table" -> parse_process_table(raw, metadata)
      [] format = "ls_long" -> parse_ls_long(raw, metadata, overflow_checks)
      [] format = "ip_addr" -> parse_ip_addr(raw, metadata)
      [] format = "systemctl" -> parse_systemctl(raw, metadata)
      [] format = "disk_usage" -> parse_disk_usage(raw, metadata)
      [] format = "journalctl" -> parse_journalctl(raw, metadata, hash_order)
      [] format = "json" -> parse_json(raw, metadata)
      [] OTHER -> parse_generic(raw, metadata)

\* Lines 85-92: the metadata, computed before the extractor runs
MetadataOf(raw, format) == Metadata(Len(Lines(raw)), ByteLen(raw), format)

DispatchOn(format, raw, overflow_checks, hash_order) ==
    Dispatch(format, raw, MetadataOf(raw, format), overflow_checks, hash_order)

parse_intelligently(raw, command, overflow_checks, hash_order) ==
    DispatchOn(DetectFormat(raw, command), raw, overflow_checks, hash_order)

\* The iteration orders the HashSet of parse_journalctl can have for raw.
HashOrders(raw, command) ==
    IF DetectFormat(raw, command) = "journalctl"
    THEN Orderings(JournalFailedServices(raw))
    ELSE {<<>>}

(***************************************************************************)
(* Inputs of the classifier.                                               *)
(***************************************************************************)
FC_Empty == <<>>
FC_Nmap == <<"n", "m", "a", "p", " ", "-", "s", "V">>
FC_NmapUpper == <<"N", "M", "A", "P">>
FC_Netstat == <<"n", "e", "t", "s", "t", "a", "t">>
FC_Ss == <<"s", "s">>
FC_Ps == <<"p", "s", " ", "a", "u", "x">>
FC_Top == <<"t", "o", "p">>
FC_LsL == <<"l", "s", " ", "-", "l">>
FC_LsLong == <<"l", "s", " ", "-", "-", "l", "o", "n", "g">>
FC_Ls == <<"l", "s">>
FC_IpAddr == <<"i", "p", " ", "a", "d", "d", "r">>
FC_IpA == <<"i", "p", " ", "a">>
FC_Systemctl == <<"s", "y", "s", "t", "e", "m", "c", "t", "l", " ", "s", "t", "a", "t", "u", "s">>
FC_Df == <<"d", "f", " ", "-", "h">>
FC_Lsblk == <<"l", "s", "b", "l", "k">>
FC_LsblkL == <<"l", "s", "b", "l", "k", " ", "-", "l">>
FC_Journalctl == <<"j", "o", "u", "r", "n", "a", "l", "c", "t", "l">>
FC_Echo == <<"e", "c", "h", "o", " ", "h", "i">>
FC_PsNmap == <<"p", "s", "|", "n", "m", "a", "p">>
FC_DfTop == <<"d", "f", "|", "t", "o", "p">>
FC_JournalDf == <<"j", "o", "u", "r", "n", "a", "l", "c", "t", "l", "|", "d", "f">>
FC_IpAddress == <<"i", "p", " ", "a", "d", "d", "r", "e", "s", "s">>

FormatCommands ==
    {FC_Empty, FC_Nmap, FC_NmapUpper, FC_Netstat, FC_Ss, FC_Ps, FC_Top, FC_LsL,
     FC_LsLong, FC_Ls, FC_IpAddr, FC_IpA, FC_Systemctl, FC_Df, FC_Lsblk, FC_LsblkL,
     FC_Journalctl, FC_Echo, FC_PsNmap, FC_DfTop, FC_JournalDf, FC_IpAddress}

FO_Empty == <<>>
FO_NmapStart == <<"S", "t", "a", "r", "t", "i", "n", "g", " ", "N", "m", "a", "p">>
FO_HostUp == <<"H", "o", "s", "t", " ", "i", "s", " ", "u", "p">>
FO_Tcp == <<"t", "c", "p", " ", "E", "S", "T", "A", "B", "L", "I", "S", "H", "E", "D">>
FO_TcpOnly == <<"t", "c", "p", " ", "L", "I", "S", "T", "E", "N">>
FO_Table4 == <<"a", "|", "b", LF, "a", "|", "b", LF, "a", BoxBar, "b", LF, "|", LF>>
FO_Table3 == <<"a", "|", "b", LF, "a", "|", "b", LF, "|">>
FO_JsonObj == <<"{", DQ, "a", DQ, ":", "1", "}">>
FO_JsonArr == <<"[", "1", "]">>
FO_JsonLate == <<" ", "{">>
FO_Plain == <<"h", "e", "l", "l", "o">>
FO_Df == <<"9", "6", "%", " ", "/">>

FormatOutputs ==
    {FO_Empty, FO_NmapStart, FO_HostUp, FO_Tcp, FO_TcpOnly, FO_Table4, FO_Table3,
     FO_JsonObj, FO_JsonArr, FO_JsonLate, FO_Plain, FO_Df}

(***************************************************************************)
(* State.                                                                  *)
(*   fmtRaw, fmtCmd, fmtResult   inputs and result of one detect_format    *)
(*   parseResult, displayResult  results of parse_intelligently and of     *)
(*                               from_command_output on the same inputs    *)
(*   tmux_installed, sessions    the multiplexer: whether the tool can be  *)
(*                               run, and the sessions that exist          *)
(*   sent                        what send-keys delivered, in order, while *)
(*                               serving the current connection            *)
(*   pc                          position of the daemon's single thread    *)
(*   total_read, request         handle_client's read loop and its result  *)
(*   stream_open, written        the client's stream and what was written  *)
(*   steps                       the pipeline steps the handler performed  *)
(*   wait                        locals of wait_for_command_completion     *)
(*   poll, captured              the last poll's capture; the most recent  *)
(*                               successfully captured text (history)      *)
(*   wait_result                 the Response the detector returned        *)
(*   wp, wp_result               locals and result of tmux::wait_for_prompt*)
(***************************************************************************)
VARIABLES
    fmtRaw, fmtCmd, fmtResult, parseResult, displayResult,
    tmux_installed, sessions, sent,
    pc, total_read, request, stream_open, written, steps,
    wait, poll, captured, wait_result,
    wp, wp_result

fmtVars == <<fmtRaw, fmtCmd, fmtResult, parseResult, displayResult>>
backendVars == <<tmux_installed, sessions, sent>>
connVars == <<pc, total_read, request, stream_open, written, steps>>
waitVars == <<wait, poll, captured, wait_result>>
wpVars == <<wp, wp_result>>
vars == <<fmtVars, backendVars, connVars, waitVars, wpVars>>

OrDefault(opt, d) == IF opt = None THEN d ELSE opt[1]

(***************************************************************************)
(* config.rs defaults.                                                     *)
(***************************************************************************)
default_session == "archy_session"
max_buffer_size == 8192

(***************************************************************************)
(* helpers.rs: Response and its builders; output.rs: DisplayOutput.        *)
(***************************************************************************)
Response(success, output, error, exists) ==
    [type |-> "Response", success |-> success, output |-> output,
     error |-> error, exists |-> exists]

response_success(output) == Response(TRUE, Some(output), None, None)
\* An error builder that leaves success set.
response_error_Succeeds(message) == Response(TRUE, None, Some(message), None)
response_error(message) == Response(FALSE, None, Some(message), None)

DisplayOutput(success, command, status, exit_code, structured, findings, summary, metadata, parsed, raw_output) ==
    [type |-> "DisplayOutput", panicked |-> FALSE, success |-> success,
     command |-> command, status |-> status, exit_code |-> exit_code,
     structured |-> structured, findings |-> findings, summary |-> summary,
     metadata |-> metadata, parsed |-> parsed, raw_output |-> raw_output]

\* The call did not return: parse_intelligently panicked.
DisplayPanicked ==
    [type |-> "DisplayOutput", panicked |-> TRUE]

\* Importance, most important first.
ImportanceRank(importance) ==
    CASE importance = "Critical" -> 1
      [] importance = "High" -> 2
      [] importance = "Medium" -> 3
      [] importance = "Low" -> 4
      [] OTHER -> 5

\* Lines 48-61 with the findings listed by importance.
DisplayOfParsed_ByImportance(command, raw_output, exit_code, parsed) ==
    DisplayOutput(exit_code = 0, command, "success", exit_code, parsed.structured,
                  Flatten([r \in 1..5 |->
                      SelectSeq(parsed.findings,
                                LAMBDA f : ImportanceRank(f.importance) = r)]),
                  parsed.summary, parsed.metadata, Some(parsed), raw_output)

\* Lines 46-61: the fields are copied from the ParsedOutput; the status of a
\* parsed capture is "success".
DisplayOfParsed(command, raw_output, exit_code, parsed) ==
    DisplayOutput(exit_code = 0, command, "success", exit_code, parsed.structured,
                  parsed.findings, parsed.summary, parsed.metadata, Some(parsed),
                  raw_output)

\* Line 36 does not return when parse_intelligently panics.
DisplayUnlessPanicked(command, raw_output, exit_code, parsed) ==
    IF parsed.panicked THEN DisplayPanicked
    ELSE DisplayOfParsed(command, raw_output, exit_code, parsed)

from_command_output(command, raw_output, exit_code, overflow_checks, hash_order) ==
    DisplayUnlessPanicked(command, raw_output, exit_code,
        parse_intelligently(raw_output, command, overflow_checks, hash_order))

from_error(command, error) ==
    DisplayOutput(FALSE, command, "error", -1, [error |-> error], <<>>,
                  <<"Error: ", error>>, Metadata(0, 0, "error"), None, error)

from_timeout(command, partial_output) ==
    DisplayOutput(FALSE, command, "timeout", -1,
                  [timeout |-> TRUE, partial_output |-> partial_output], <<>>,
                  <<"Command timeout">>,
                  Metadata(Len(Lines(partial_output)), ByteLen(partial_output), "timeout"),
                  None, partial_output)

\* safe_json_response / send_json_response: write the object, then shut the
\* stream down.  A write on a stream that was shut down fails (EPIPE) and
\* nothing reaches the client.
WriteJson(w, open, resp) == IF open THEN Append(w, resp) ELSE w

(***************************************************************************)
(* helpers.rs: security::validate_command.  "ok" or the error kind.        *)
(***************************************************************************)
NUL == "U+0000"
max_command_len == 8192
P_rm_rf_root == <<"r", "m", " ", "-", "r", "f", " ", "/">>
P_rm_rf_star == <<"r", "m", " ", "-", "r", "f", " ", "/", "*">>
P_dev_sda == <<">", " ", "/", "d", "e", "v", "/", "s", "d", "a">>
P_dd == <<"d", "d", " ", "i", "f", "=", "/", "d", "e", "v", "/", "z", "e", "r", "o",
          " ", "o", "f", "=", "/", "d", "e", "v", "/", "s", "d", "a">>
P_mkfs == <<"m", "k", "f", "s", ".">>
P_fork_bomb == <<":", "(", ")", "{", " ", ":", "|", ":", "&", " ", "}", ";", ":">>

dangerous_patterns ==
    {P_rm_rf_root, P_rm_rf_star, P_dev_sda, P_dd, P_mkfs, P_fork_bomb}

\* Lines 93-98 without to_lowercase: the patterns are looked for as typed.
validate_command_CaseSensitive(command) ==
    IF ContainsChar(command, NUL) THEN "null_byte"
    ELSE IF ByteLen(command) > max_command_len THEN "too_long"
    ELSE IF \E pattern \in dangerous_patterns : Contains(command, pattern)
         THEN "dangerous_pattern"
    ELSE "ok"

\* command.len() is the length in bytes.
validate_command(command) ==
    IF ContainsChar(command, NUL) THEN "null_byte"
    ELSE IF ByteLen(command) > max_command_len THEN "too_long"
    ELSE IF \E pattern \in dangerous_patterns :
                Contains(ToLowercase(command), pattern)
         THEN "dangerous_pattern"
    ELSE "ok"

(***************************************************************************)
(* tmux.rs: the session backend.  A call can succeed only when the tool    *)
(* can be run and the session state allows it; it can fail at any time.    *)
(***************************************************************************)
\* A has_session that answers for the tool and not for the session.
has_session_AnyName(session) == tmux_installed

has_session(session) == tmux_installed /\ session \in sessions

CanCreate(session) == tmux_installed /\ session \notin sessions

CanSpawn == tmux_installed

(***************************************************************************)
(* Requests.  A field that is absent, or not of the type the handler asks  *)
(* for (as_str, as_u64), is None.                                          *)
(***************************************************************************)
CmdEmpty == <<>>
CmdBlank == <<" ">>
CmdDf == <<"d", "f">>
CmdRm == <<"r", "m", " ", "-", "r", "f", " ", "/">>

Commands == {CmdEmpty, CmdBlank, CmdDf, CmdRm}

\* Further commands for the execute action: a null byte, a denylisted
\* pattern in capitals and inside a longer line, and 2731 three-byte
\* characters, which are 8193 bytes.
CmdNul == <<"l", "s", NUL>>
CmdRmUpper == <<"s", "u", "d", "o", " ", "R", "m", " ", "-", "R", "F", " ", "/">>
CmdMkfs == <<"M", "K", "F", "S", ".", "e", "x", "t", "4", " ", "x">>
LongCommandChars == 2731
CmdLong == [i \in 1..LongCommandChars |-> GlyphBolt]

ExecuteCommands == Commands \cup {CmdNul, CmdRmUpper, CmdMkfs, CmdLong}
SessionNames == {default_session, "work"}
MaxWaitInputs == {0, 1, 2, 3601}
IntervalInputs == {0, 500, 1000000}

Opt(S) == {None} \cup {Some(x) : x \in S}

\* The largest number of polls one completion wait makes in the model.
MaxPolls == 10

(***************************************************************************)
(* main.rs: wait_for_command_completion, lines 758-790: its parameters.    *)
(***************************************************************************)
max_wait_cap_seconds == 3600
min_check_interval_ms == 100
default_max_wait_seconds == 600
default_check_interval_ms == 500
required_stable_checks == 3

EffectiveMaxWaitSeconds(max_wait) ==
    Min(OrDefault(max_wait, default_max_wait_seconds), max_wait_cap_seconds)

EffectiveCheckIntervalMs(interval_ms) ==
    Max(OrDefault(interval_ms, default_check_interval_ms), min_check_interval_ms)

WaitLocals(caller, data) ==
    [caller         |-> caller,
     session        |-> OrDefault(data.session, "archy_session"),
     command        |-> OrDefault(data.command, <<>>),
     max_duration   |-> EffectiveMaxWaitSeconds(data.max_wait) * 1000,
     check_interval |-> EffectiveCheckIntervalMs(data.interval_ms),
     elapsed        |-> 0,
     last_output    |-> <<>>,
     stable_count   |-> 0]

WaitIdle ==
    [caller |-> "none", session |-> "", command |-> <<>>, max_duration |-> 0,
     check_interval |-> 0, elapsed |-> 0, last_output |-> <<>>, stable_count |-> 0]

\* wait_data as handle_execute_and_wait (default max_wait 300) and
\* handle_execute_analyzed (default 600) build it.
default_max_wait_execute_and_wait == 300

WaitData(data, session, command, default_max_wait) ==
    [action      |-> "wait_for_prompt",
     session     |-> Some(session),
     command     |-> Some(command),
     max_wait    |-> Some(OrDefault(data.max_wait, default_max_wait)),
     interval_ms |-> Some(OrDefault(data.interval_ms, default_check_interval_ms))]

\* Number of iterations of the loop of lines 792-848 when no poll returns.
PollsOf(w) == (w.max_duration + w.check_interval - 1) \div w.check_interval

RequestWaitLocals(r) ==
    IF r.action = "execute_and_wait"
    THEN WaitLocals(r.action, WaitData(r, "s", <<>>, default_max_wait_execute_and_wait))
    ELSE IF r.action = "execute_analyzed"
    THEN WaitLocals(r.action, WaitData(r, "s", <<>>, default_max_wait_seconds))
    ELSE WaitLocals(r.action, r)

WaitingActions == {"execute_and_wait", "execute_analyzed", "wait_for_prompt"}

SessionActions == {"capture", "capture_analyzed", "check_session", "close_session"}

Requests ==
    {[action |-> "execute", command |-> c, session |-> s, max_wait |-> None,
      interval_ms |-> None] :
        c \in Opt(ExecuteCommands), s \in Opt({"work"})}
    \cup
    {[action |-> "no_such_action", command |-> c, session |-> s, max_wait |-> None,
      interval_ms |-> None] :
        c \in Opt(Commands), s \in Opt({"work"})}
    \cup
    {[action |-> a, command |-> c, session |-> s, max_wait |-> None,
      interval_ms |-> None] :
        a \in SessionActions, c \in Opt({CmdDf}), s \in Opt({"work"})}
    \cup
    {r \in [action : WaitingActions, command : Opt(Commands), session : {None},
            max_wait : Opt(MaxWaitInputs), interval_ms : Opt(IntervalInputs)] :
        PollsOf(RequestWaitLocals(r)) <= MaxPolls}

(***************************************************************************)
(* main.rs: wait_for_command_completion, lines 819-837: the prompt test.   *)
(***************************************************************************)
S_password_for == <<"p", "a", "s", "s", "w", "o", "r", "d", " ", "f", "o", "r">>
S_sudo == <<"[", "s", "u", "d", "o", "]">>

has_prompt(last_line) ==
    \/ ContainsChar(last_line, "$")
    \/ ContainsChar(last_line, "#")
    \/ ContainsChar(last_line, GlyphRight)
    \/ ContainsChar(last_line, ">")
    \/ ContainsChar(last_line, GlyphLeft)
    \/ ContainsChar(last_line, GlyphBolt)

command_not_echoed(last_line, command) ==
    ~Contains(last_line, command) \/ command = <<>>

\* Lines 834-835 without the to_lowercase.
waiting_for_password_CaseSensitive(last_line) ==
    \/ Contains(last_line, S_password_for)
    \/ Contains(last_line, S_sudo)

waiting_for_password(last_line) ==
    \/ Contains(ToLowercase(last_line), S_password_for)
    \/ Contains(ToLowercase(last_line), S_sudo)

\* Line 837 with the threshold one too low.
StableEnough_Two(stable_count) == stable_count >= required_stable_checks - 1

\* Line 837 accepting the first repetition of a text.
StableEnough_One(stable_count) == stable_count >= 1

StableEnough(stable_count) == stable_count >= required_stable_checks

\* The condition of line 837, on the capture of this poll.
Completed(current_output, stable_count, command) ==
    LET last_line == LastLine(current_output)
    IN  /\ ~waiting_for_password(last_line)
        /\ has_prompt(last_line)
        /\ command_not_echoed(last_line, command)
        /\ StableEnough(stable_count)

\* Lines 812-817 without line 816: the new text is not remembered.
StabilityUpdate_ForgetsText(w, current_output) ==
    IF current_output = w.last_output
    THEN [w EXCEPT !.stable_count = @ + 1]
    ELSE [w EXCEPT !.stable_count = 0]

\* Lines 812-817 without line 815: a changed text does not reset the count.
StabilityUpdate_KeepsCount(w, current_output) ==
    IF current_output = w.last_output
    THEN [w EXCEPT !.stable_count = @ + 1]
    ELSE [w EXCEPT !.last_output = current_output]

\* Lines 812-817: the stability update on a successful capture.
StabilityUpdate(w, current_output) ==
    IF current_output = w.last_output
    THEN [w EXCEPT !.stable_count = @ + 1]
    ELSE [w EXCEPT !.stable_count = 0, !.last_output = current_output]

(***************************************************************************)
(* What a capture of the pane can show.                                    *)
(***************************************************************************)
CapEmpty == <<>>
CapOutput == <<"o", "u", "t", LF>>
CapPrompt == <<"o", "u", "t", LF, "u", "$", " ", LF, " ", LF>>
CapEcho == <<"u", "$", " ", "d", "f", LF>>
CapSudo == <<"[", "S", "u", "d", "o", "]", " ", "u", ">", LF>>
CapPwFor == <<"P", "a", "s", "s", "w", "o", "r", "d", " ", "F", "o", "r", " ", "u", "#">>
CapBlank == <<" ", LF>>

Captures == {CapEmpty, CapOutput, CapPrompt, CapEcho, CapSudo, CapPwFor, CapBlank}

CaptureFailures == {"spawn_error", "exit_failure", "invalid_utf8"}

NoPoll == [kind |-> "none", text |-> <<>>]

(***************************************************************************)
(* Initial state: the daemon is bound and listening (main.rs 29-44).       *)
(***************************************************************************)
FmtIdle ==
    /\ fmtRaw = <<>>
    /\ fmtCmd = <<>>
    /\ fmtResult = None
    /\ parseResult = None
    /\ displayResult = None

ConnIdle ==
    /\ pc = "listen"
    /\ total_read = 0
    /\ request = None
    /\ stream_open = FALSE
    /\ written = <<>>
    /\ steps = <<>>

WaitIdleState ==
    /\ wait = WaitIdle
    /\ poll = NoPoll
    /\ captured = None
    /\ wait_result = None

WpIdle ==
    [pc |-> "idle", session |-> "", max_wait_ms |-> 0, poll_interval_ms |-> 0,
     commands |-> <<>>,
     max_iterations |-> 0, iteration |-> 0, previous_output |-> <<>>,
     stable_count |-> 0, returned_at |-> "none"]

WpIdleState ==
    /\ wp = WpIdle
    /\ wp_result = None

Init ==
    /\ FmtIdle
    /\ WpIdleState
    /\ tmux_installed \in BOOLEAN
    /\ sessions \in {{}, {default_session}}
    /\ ~tmux_installed => sessions = {}
    /\ sent = <<>>
    /\ ConnIdle
    /\ WaitIdleState

(***************************************************************************)
(* main.rs: main, lines 44-54, and handle_client, lines 59-115.            *)
(***************************************************************************)
ReadSizes == {4096, 8192}

\* A listener that hands the next connection to the handler while the
\* handler of the previous one is still dispatching or waiting.
Accept_WhileHandling ==
    /\ pc \in {"listen", "closed", "dispatch", "wait"}
    /\ pc' = "read"
    /\ total_read' = 0
    /\ request' = None
    /\ stream_open' = TRUE
    /\ written' = <<>>
    /\ steps' = <<>>
    /\ sent' = <<>>
    /\ wait' = WaitIdle
    /\ poll' = NoPoll
    /\ captured' = None
    /\ wait_result' = None
    /\ UNCHANGED <<wpVars, fmtVars, tmux_installed, sessions>>

\* listener.incoming() yields the next connection.
Accept ==
    /\ pc \in {"listen", "closed"}
    /\ pc' = "read"
    /\ total_read' = 0
    /\ request' = None
    /\ stream_open' = TRUE
    /\ written' = <<>>
    /\ steps' = <<>>
    /\ sent' = <<>>
    /\ wait' = WaitIdle
    /\ poll' = NoPoll
    /\ captured' = None
    /\ wait_result' = None
    /\ UNCHANGED <<wpVars, fmtVars, tmux_installed, sessions>>

\* send_error followed by return: one write, then the stream is shut down.
SendErrorAndReturn(msg) ==
    /\ written' = WriteJson(written, stream_open, response_error(msg))
    /\ stream_open' = FALSE
    /\ pc' = "closed"

\* stream.read gives n > 0 bytes (lines 73-87); complete says whether the
\* buffer now parses as a Request, and r is that request.  total_read is a
\* local of the read loop: once the loop is left with a request it is dead,
\* and the model forgets it.
ReadData(n, complete, r) ==
    /\ pc = "read"
    /\ IF complete
       THEN /\ request' = Some(r)
            /\ total_read' = 0
            /\ pc' = "dispatch"
            /\ UNCHANGED <<stream_open, written>>
       ELSE IF total_read + n > max_buffer_size
       THEN /\ SendErrorAndReturn("Request too large")
            /\ total_read' = total_read + n
            /\ UNCHANGED request
       ELSE /\ total_read' = total_read + n
            /\ UNCHANGED <<pc, request, stream_open, written>>
    /\ UNCHANGED <<wpVars, fmtVars, backendVars, steps, waitVars>>

\* stream.read gives Ok(0) (line 72); the buffer never parsed, so lines
\* 104-115 answer "Empty request received" or "Invalid JSON".
ReadEof ==
    /\ pc = "read"
    /\ IF total_read = 0
       THEN SendErrorAndReturn("Empty request received")
       ELSE SendErrorAndReturn("Invalid JSON")
    /\ UNCHANGED <<wpVars, fmtVars, backendVars, total_read, request, steps, waitVars>>

\* stream.read fails with ErrorKind::TimedOut (lines 89-95).  With an empty
\* buffer "Connection timeout" is written and the stream shut down; the
\* second send_error of line 105 then fails on the closed stream.
ReadTimedOut ==
    /\ pc = "read"
    /\ IF total_read = 0
       THEN /\ written' = WriteJson(
                    WriteJson(written, stream_open, response_error("Connection timeout")),
                    FALSE, response_error("Empty request received"))
            /\ stream_open' = FALSE
            /\ pc' = "closed"
       ELSE SendErrorAndReturn("Invalid JSON")
    /\ UNCHANGED <<wpVars, fmtVars, backendVars, total_read, request, steps, waitVars>>

\* stream.read fails with any other error kind (lines 96-99); on Unix an
\* expired read timeout is reported as WouldBlock and arrives here.
ReadError ==
    /\ pc = "read"
    /\ pc' = "closed"
    /\ UNCHANGED <<wpVars, fmtVars, backendVars, total_read, request, stream_open, written,
                   steps, waitVars>>

\* safe_json_response / send_json_response of the handler's result.
Respond(resp) ==
    /\ written' = WriteJson(written, stream_open, resp)
    /\ stream_open' = FALSE
    /\ pc' = "closed"

(***************************************************************************)
(* main.rs: execute_command, lines 145-179.                                *)
(***************************************************************************)
ExecuteCommand(create_ok, send_ok) ==
    /\ pc = "dispatch"
    /\ request[1].action = "execute"
    /\ LET data    == request[1]
           session == OrDefault(data.session, default_session)
       IN  IF data.command = None
           THEN /\ Respond(response_error("Missing required parameter: command"))
                /\ steps' = steps
                /\ UNCHANGED <<sessions, sent>>
           ELSE IF Trim(data.command[1]) = <<>>
           THEN /\ Respond(response_error("Command cannot be empty"))
                /\ steps' = steps \o <<"validate">>
                /\ UNCHANGED <<sessions, sent>>
           ELSE IF validate_command(data.command[1]) # "ok"
           THEN /\ Respond(response_error(validate_command(data.command[1])))
                /\ steps' = steps \o <<"validate">>
                /\ UNCHANGED <<sessions, sent>>
           ELSE IF ~has_session(session) /\ ~(create_ok /\ CanCreate(session))
           THEN /\ Respond(response_error("Failed to create tmux session"))
                /\ steps' = steps \o <<"validate", "has_session", "new_session">>
                /\ UNCHANGED <<sessions, sent>>
           ELSE LET created == ~has_session(session)
                    sent_ok == send_ok /\ CanSpawn
                IN  /\ sessions' = sessions \cup {session}
                    /\ steps' = steps \o <<"validate", "has_session">>
                                      \o (IF created THEN <<"new_session">> ELSE <<>>)
                                      \o <<"send_keys">>
                    /\ IF sent_ok
                       THEN /\ sent' = Append(sent, [session |-> session,
                                                     command |-> data.command[1]])
                            /\ Respond(response_success(data.command[1]))
                       ELSE /\ sent' = sent
                            /\ Respond(response_error("send-keys failed"))
    /\ UNCHANGED <<wpVars, fmtVars, tmux_installed, total_read, request, waitVars>>

\* Line 137: an action name the dispatcher does not know.
UnknownAction ==
    /\ pc = "dispatch"
    /\ request[1].action \notin ({"execute"} \cup WaitingActions \cup SessionActions)
    /\ Respond(response_error("Unknown action"))
    /\ UNCHANGED <<wpVars, fmtVars, backendVars, total_read, request, steps, waitVars>>

(***************************************************************************)
(* A send-keys issued with Command::output (main.rs 1356-1358, 1453-1455): *)
(* only a failure to run the tool is an error; when the session does not   *)
(* exist the tool exits with a failure status that these callers ignore,   *)
(* and nothing is delivered.                                               *)
(***************************************************************************)
RawSendDelivers(session) == session \in sessions

(***************************************************************************)
(* main.rs: handle_execute_and_wait, lines 1426-1470, up to the wait.      *)
(***************************************************************************)
HandleExecuteAndWait(create_ok, spawn_ok) ==
    /\ pc = "dispatch"
    /\ request[1].action = "execute_and_wait"
    /\ LET data    == request[1]
           session == OrDefault(data.session, "archy_session")
       IN  IF data.command = None
           THEN /\ Respond(from_error(<<>>, "Missing command parameter"))
                /\ UNCHANGED <<sessions, sent, steps, wait>>
           ELSE IF ~has_session(session) /\ ~(create_ok /\ CanCreate(session))
           THEN /\ Respond(from_error(data.command[1], "Failed to create tmux session"))
                /\ steps' = steps \o <<"has_session", "new_session">>
                /\ UNCHANGED <<sessions, sent, wait>>
           ELSE LET created == ~has_session(session)
                    before  == steps \o <<"has_session">>
                                     \o (IF created THEN <<"new_session">> ELSE <<>>)
                                     \o <<"send_keys">>
                IN  /\ sessions' = sessions \cup {session}
                    /\ IF ~(spawn_ok /\ CanSpawn)
                       THEN /\ Respond(from_error(data.command[1], "spawn failed"))
                            /\ steps' = before
                            /\ UNCHANGED <<sent, wait>>
                       ELSE /\ sent' = Append(sent, [session |-> session,
                                                     command |-> data.command[1]])
                            /\ steps' = before \o <<"wait">>
                            /\ wait' = WaitLocals("execute_and_wait",
                                            WaitData(data, session, data.command[1],
                                                     default_max_wait_execute_and_wait))
                            /\ pc' = "wait"
                            /\ UNCHANGED <<stream_open, written>>
    /\ UNCHANGED <<wpVars, fmtVars, tmux_installed, total_read, request, poll, captured,
                   wait_result>>

(***************************************************************************)
(* main.rs: handle_execute_analyzed, lines 1342-1373, up to the wait.      *)
(***************************************************************************)
HandleExecuteAnalyzed(spawn_ok) ==
    /\ pc = "dispatch"
    /\ request[1].action = "execute_analyzed"
    /\ LET data    == request[1]
           session == OrDefault(data.session, "archy_session")
       IN  IF data.command = None
           THEN /\ Respond(from_error(<<>>, "Missing command parameter"))
                /\ UNCHANGED <<sent, steps, wait>>
           ELSE IF ~(spawn_ok /\ CanSpawn)
           THEN /\ Respond(from_error(data.command[1], "spawn failed"))
                /\ steps' = steps \o <<"send_keys">>
                /\ UNCHANGED <<sent, wait>>
           ELSE /\ sent' = IF RawSendDelivers(session)
                           THEN Append(sent, [session |-> session,
                                              command |-> data.command[1]])
                           ELSE sent
                /\ steps' = steps \o <<"send_keys", "wait">>
                /\ wait' = WaitLocals("execute_analyzed",
                                WaitData(data, session, data.command[1],
                                         default_max_wait_seconds))
                /\ pc' = "wait"
                /\ UNCHANGED <<stream_open, written>>
    /\ UNCHANGED <<wpVars, fmtVars, tmux_installed, sessions, total_read, request, poll,
                   captured, wait_result>>

(***************************************************************************)
(* main.rs line 132: the wait_for_prompt action calls the detector on the  *)
(* request data.                                                           *)
(***************************************************************************)
WaitForPromptAction ==
    /\ pc = "dispatch"
    /\ request[1].action = "wait_for_prompt"
    /\ wait' = WaitLocals("wait_for_prompt", request[1])
    /\ steps' = steps \o <<"wait">>
    /\ pc' = "wait"
    /\ UNCHANGED <<wpVars, fmtVars, backendVars, total_read, request, stream_open, written,
                   poll, captured, wait_result>>

(***************************************************************************)
(* main.rs: wait_for_command_completion, lines 792-857.                    *)
(* One poll: sleep check_interval, capture, update, test.  The clock is    *)
(* the sum of the sleeps.                                                  *)
(***************************************************************************)
\* What one capture-pane call can give: the tool cannot be run, it exits with
\* a failure status, its output is not valid UTF-8, or its output is a text.
PollOutcomes ==
    {[kind |-> k, text |-> <<>>] : k \in CaptureFailures}
    \cup {[kind |-> "ok", text |-> t] : t \in Captures}

\* A poll loop that gives up on the first capture that fails, the way
\* tmux.rs wait_for_prompt does with `?`.
WaitPoll_FailureEnds(outcome) ==
    /\ pc = "wait"
    /\ wait.elapsed < wait.max_duration
    /\ outcome.kind \in {"ok", "invalid_utf8"} => has_session(wait.session)
    /\ poll' = outcome
    /\ LET slept == [wait EXCEPT !.elapsed = @ + wait.check_interval]
       IN  IF outcome.kind # "ok"
           THEN /\ wait' = slept
                /\ wait_result' = Some(response_error(outcome.kind))
                /\ pc' = "waited"
                /\ UNCHANGED captured
           ELSE LET w == StabilityUpdate(slept, outcome.text)
                IN  /\ wait' = w
                    /\ captured' = Some(outcome.text)
                    /\ IF Completed(outcome.text, w.stable_count, w.command)
                       THEN /\ wait_result' =
                                  Some(Response(TRUE, Some(outcome.text), None, Some(TRUE)))
                            /\ pc' = "waited"
                       ELSE UNCHANGED <<pc, wait_result>>
    /\ UNCHANGED <<wpVars, fmtVars, backendVars, total_read, request, stream_open, written,
                   steps>>

WaitPoll(outcome) ==
    /\ pc = "wait"
    /\ wait.elapsed < wait.max_duration
    /\ outcome.kind \in {"ok", "invalid_utf8"} => has_session(wait.session)
    /\ poll' = outcome
    /\ LET slept == [wait EXCEPT !.elapsed = @ + wait.check_interval]
       IN  IF outcome.kind # "ok"
           THEN /\ wait' = slept
                /\ UNCHANGED <<pc, captured, wait_result>>
           ELSE LET w == StabilityUpdate(slept, outcome.text)
                IN  /\ wait' = w
                    /\ captured' = Some(outcome.text)
                    /\ IF Completed(outcome.text, w.stable_count, w.command)
                       THEN /\ wait_result' =
                                  Some(Response(TRUE, Some(outcome.text), None, Some(TRUE)))
                            /\ pc' = "waited"
                       ELSE UNCHANGED <<pc, wait_result>>
    /\ UNCHANGED <<wpVars, fmtVars, backendVars, total_read, request, stream_open, written,
                   steps>>

\* Lines 850-856: the loop condition fails.
WaitTimeout ==
    /\ pc = "wait"
    /\ ~(wait.elapsed < wait.max_duration)
    /\ wait_result' = Some(Response(FALSE, Some(wait.last_output),
                                    Some("Command timeout - may still be running"),
                                    Some(FALSE)))
    /\ pc' = "waited"
    /\ UNCHANGED <<wpVars, fmtVars, backendVars, total_read, request, stream_open, written,
                   steps, wait, poll, captured>>

(***************************************************************************)
(* After the wait: main.rs 1375-1386 and 1472-1483 for the two analysed    *)
(* actions, line 141 for the wait_for_prompt action.                       *)
(***************************************************************************)
DisplayOfWait(command, wait_response, overflow_checks, hash_order) ==
    IF wait_response.success
    THEN IF wait_response.output # None
         THEN from_command_output(command, wait_response.output[1], 0,
                                  overflow_checks, hash_order)
         ELSE from_error(command, "No output captured")
    ELSE from_timeout(command, OrDefault(wait_response.output, <<>>))

\* A panic unwinds through handle_client and main: the process ends, the
\* connection closes with nothing written and no connection is accepted again.
RespondUnlessPanicked(display) ==
    IF display.panicked
    THEN /\ pc' = "crashed"
         /\ stream_open' = FALSE
         /\ UNCHANGED written
    ELSE Respond(display)

RespondAfterWait ==
    /\ pc = "waited"
    /\ IF wait.caller = "wait_for_prompt"
       THEN /\ Respond(wait_result[1])
            /\ UNCHANGED steps
       ELSE /\ \E overflow_checks \in BOOLEAN :
                 \E hash_order \in HashOrders(OrDefault(wait_result[1].output, <<>>),
                                              request[1].command[1]) :
                    RespondUnlessPanicked(
                        DisplayOfWait(request[1].command[1], wait_result[1],
                                      overflow_checks, hash_order))
            /\ steps' = IF wait_result[1].success
                        THEN steps \o <<"detect_format">>
                        ELSE steps
    /\ UNCHANGED <<wpVars, fmtVars, backendVars, total_read, request, waitVars>>

(***************************************************************************)
(* The daemon.                                                             *)
(***************************************************************************)
Ok(value) == [ok |-> TRUE, value |-> value]
Err(value) == [ok |-> FALSE, value |-> value]

\* tmux.rs: run_tmux, lines 8-19, for a capture-pane call: an error when the
\* tool cannot be run or exits with a failure status; otherwise the output
\* converted with from_utf8_lossy, which replaces invalid bytes by U+FFFD.
ReplacementChar == "U+FFFD"

run_tmux_capture(outcome) ==
    IF outcome.kind = "ok" THEN Ok(outcome.text)
    ELSE IF outcome.kind = "invalid_utf8" THEN Ok(<<ReplacementChar, LF>>)
    ELSE Err(outcome.kind)

(***************************************************************************)
(* main.rs: capture_tmux_output (181-190), check_tmux_session (192-198),   *)
(* close_session (319-362) and handle_capture_analyzed (1390-1422).        *)
(***************************************************************************)
\* helpers.rs: response::exists
response_exists(exists) == Response(exists, None, None, Some(exists))

\* A capture-pane call gives a text only for a session that exists.
CaptureCan(session, outcome) ==
    outcome.kind \in {"ok", "invalid_utf8"} => has_session(session)

\* A capture that also ends the session it could not read.
SessionsAfterCapture_DropOnFailure(session, captured_ok) ==
    IF captured_ok THEN sessions ELSE sessions \ {session}

\* tmux capture-pane reads the pane: the sessions are what they were,
\* whether the capture succeeds or not.
SessionsAfterCapture(session, captured_ok) == sessions

CaptureTmuxOutput(outcome) ==
    /\ pc = "dispatch"
    /\ request[1].action = "capture"
    /\ CaptureCan(OrDefault(request[1].session, default_session), outcome)
    /\ sessions' = SessionsAfterCapture(OrDefault(request[1].session, default_session),
                                        run_tmux_capture(outcome).ok)
    /\ Respond(IF run_tmux_capture(outcome).ok
               THEN response_success(run_tmux_capture(outcome).value)
               ELSE response_error(run_tmux_capture(outcome).value))
    /\ steps' = steps \o <<"capture_pane">>
    /\ UNCHANGED <<wpVars, fmtVars, tmux_installed, sent, total_read, request, waitVars>>

\* Lines 1408-1419: the DisplayOutput for the outcome of the capture.
DisplayOfCapture(command, outcome, overflow_checks, hash_order) ==
    IF run_tmux_capture(outcome).ok
    THEN from_command_output(command, run_tmux_capture(outcome).value, 0,
                             overflow_checks, hash_order)
    ELSE IF outcome.kind = "exit_failure"
    THEN from_error(command, "Failed to capture output")
    ELSE from_error(command, outcome.kind)

\* The text a capture gives, empty when it fails.
CapturedText(outcome) ==
    IF run_tmux_capture(outcome).ok THEN run_tmux_capture(outcome).value ELSE <<>>

HandleCaptureAnalyzed(outcome, overflow_checks) ==
    /\ pc = "dispatch"
    /\ request[1].action = "capture_analyzed"
    /\ CaptureCan(OrDefault(request[1].session, default_session), outcome)
    /\ sessions' = SessionsAfterCapture(OrDefault(request[1].session, default_session),
                                        run_tmux_capture(outcome).ok)
    /\ \E hash_order \in HashOrders(CapturedText(outcome),
                                     OrDefault(request[1].command, <<>>)) :
           RespondUnlessPanicked(
               DisplayOfCapture(OrDefault(request[1].command, <<>>), outcome,
                                overflow_checks, hash_order))
    /\ steps' = steps \o <<"capture_pane">>
    /\ UNCHANGED <<wpVars, fmtVars, tmux_installed, sent, total_read, request, waitVars>>

CheckTmuxSession ==
    /\ pc = "dispatch"
    /\ request[1].action = "check_session"
    /\ Respond(response_exists(has_session(default_session)))
    /\ steps' = steps \o <<"has_session">>
    /\ UNCHANGED <<wpVars, fmtVars, backendVars, total_read, request, waitVars>>

\* Lines 333-361: tmux kill-session -t session and the response for its status.
CloseSession(spawn_ok) ==
    /\ pc = "dispatch"
    /\ request[1].action = "close_session"
    /\ LET session == OrDefault(request[1].session, default_session)
       IN  IF ~(spawn_ok /\ CanSpawn)
           THEN /\ Respond(response_error("spawn_error"))
                /\ UNCHANGED sessions
           ELSE IF has_session(session)
           THEN /\ sessions' = sessions \ {session}
                /\ Respond(response_success("Session closed"))
           ELSE /\ Respond(response_error("Session not found or already closed"))
                /\ UNCHANGED sessions
    /\ steps' = steps \o <<"kill_session">>
    /\ UNCHANGED <<wpVars, fmtVars, tmux_installed, sent, total_read, request, waitVars>>

Next ==
    \/ Accept
    \/ \E n \in ReadSizes, r \in Requests : ReadData(n, TRUE, r)
    \/ \E n \in ReadSizes : ReadData(n, FALSE, CHOOSE r \in Requests : TRUE)
    \/ ReadEof
    \/ ReadTimedOut
    \/ ReadError
    \/ \E create_ok, send_ok \in BOOLEAN : ExecuteCommand(create_ok, send_ok)
    \/ \E create_ok, spawn_ok \in BOOLEAN : HandleExecuteAndWait(create_ok, spawn_ok)
    \/ \E spawn_ok \in BOOLEAN : HandleExecuteAnalyzed(spawn_ok)
    \/ WaitForPromptAction
    \/ \E outcome \in PollOutcomes : CaptureTmuxOutput(outcome)
    \/ \E outcome \in PollOutcomes, overflow_checks \in BOOLEAN :
          HandleCaptureAnalyzed(outcome, overflow_checks)
    \/ CheckTmuxSession
    \/ \E spawn_ok \in BOOLEAN : CloseSession(spawn_ok)
    \/ UnknownAction
    \/ \E outcome \in PollOutcomes : WaitPoll(outcome)
    \/ WaitTimeout
    \/ RespondAfterWait

Spec == Init /\ [][Next]_vars

(***************************************************************************)
(* tmux.rs: wait_for_prompt, lines 75-107, and Session::execute_and_wait,  *)
(* lines 134-152.  A Result<String, String> is [ok, value].                *)
(***************************************************************************)
STABILITY_THRESHOLD == 6

\* Lines 83-86.  The division panics when poll_interval_ms is 0.
WaitForPromptLocals(session, max_wait_ms, poll_interval_ms) ==
    IF poll_interval_ms = 0
    THEN [WpIdle EXCEPT !.pc = "panicked", !.session = session,
                        !.max_wait_ms = max_wait_ms]
    ELSE [WpIdle EXCEPT !.pc = "loop", !.session = session,
                        !.max_wait_ms = max_wait_ms,
                        !.poll_interval_ms = poll_interval_ms,
                        !.max_iterations = max_wait_ms \div poll_interval_ms]

ConfigMaxWaitSeconds == {0, 1, 4, 3601}
ConfigPollIntervalMs == {0, 50, 100, 500, 1000000}
DirectWaits == {<<500, 100>>}

\* A call of the public wait_for_prompt with its arguments in milliseconds.
WaitForPrompt(session, max_wait_ms, poll_interval_ms) ==
    /\ wp.pc = "idle"
    /\ wp' = WaitForPromptLocals(session, max_wait_ms, poll_interval_ms)
    /\ UNCHANGED <<fmtVars, backendVars, connVars, waitVars, wp_result>>

\* Session::execute_and_wait: execute (ensure_exists, send_keys), each with ?,
\* then wait_for_prompt with the configuration's values.
SessionExecuteAndWait(session, command, max_wait_seconds, poll_interval_ms, create_ok, send_ok) ==
    /\ wp.pc = "idle"
    /\ poll_interval_ms # 0 => (max_wait_seconds * 1000) \div poll_interval_ms <= MaxPolls
    /\ IF ~has_session(session) /\ ~(create_ok /\ CanCreate(session))
       THEN /\ wp' = [wp EXCEPT !.pc = "returned", !.returned_at = "execute"]
            /\ wp_result' = Some(Err("new-session failed"))
            /\ UNCHANGED <<sessions, sent>>
       ELSE /\ sessions' = sessions \cup {session}
            /\ IF ~(send_ok /\ CanSpawn)
               THEN /\ wp' = [wp EXCEPT !.pc = "returned", !.returned_at = "execute"]
                    /\ wp_result' = Some(Err("send-keys failed"))
                    /\ UNCHANGED sent
               ELSE /\ sent' = Append(sent, [session |-> session, command |-> command])
                    /\ wp' = WaitForPromptLocals(session, max_wait_seconds * 1000,
                                                 poll_interval_ms)
                    /\ UNCHANGED wp_result
    /\ UNCHANGED <<fmtVars, tmux_installed, connVars, waitVars>>

\* One iteration of lines 88-103: sleep, capture_pane(session, 50)?, compare.
WpPoll(outcome) ==
    /\ wp.pc = "loop"
    /\ wp.iteration < wp.max_iterations
    /\ outcome.kind \in {"ok", "invalid_utf8"} => has_session(wp.session)
    /\ LET w == [wp EXCEPT !.iteration = @ + 1]
           current_output == run_tmux_capture(outcome)
       IN  IF ~current_output.ok
           THEN /\ wp' = [w EXCEPT !.pc = "returned", !.returned_at = "capture_error"]
                /\ wp_result' = Some(current_output)
           ELSE IF current_output.value = w.previous_output
           THEN IF w.stable_count + 1 >= STABILITY_THRESHOLD
                THEN /\ wp' = [w EXCEPT !.stable_count = @ + 1, !.pc = "returned",
                                        !.returned_at = "stable"]
                     /\ wp_result' = Some(Ok(current_output.value))
                ELSE /\ wp' = [w EXCEPT !.stable_count = @ + 1]
                     /\ UNCHANGED wp_result
           ELSE /\ wp' = [w EXCEPT !.stable_count = 0,
                                   !.previous_output = current_output.value]
                /\ UNCHANGED wp_result
    /\ UNCHANGED <<fmtVars, backendVars, connVars, waitVars>>

\* Line 106: the iterations are used up.
WpExhausted ==
    /\ wp.pc = "loop"
    /\ ~(wp.iteration < wp.max_iterations)
    /\ wp' = [wp EXCEPT !.pc = "returned", !.returned_at = "timeout"]
    /\ wp_result' = Some(Ok(wp.previous_output))
    /\ UNCHANGED <<fmtVars, backendVars, connVars, waitVars>>

\* The caller has its result (or the thread has unwound); the next call.
WpReset ==
    /\ wp.pc \in {"returned", "api_returned", "panicked"}
    /\ wp' = WpIdle
    /\ wp_result' = None
    /\ sent' = <<>>
    /\ UNCHANGED <<fmtVars, tmux_installed, sessions, connVars, waitVars>>

(***************************************************************************)
(* tmux.rs: new_session (47-50), kill_session (53-56) and the Session      *)
(* methods ensure_exists, execute, capture and kill (126-157); batch.rs:   *)
(* execute_batch (45-148).  A call made while no other is running returns *)
(* at once; its result is in wp_result.                                    *)
(***************************************************************************)
ApiReturned(op, session) ==
    [WpIdle EXCEPT !.pc = "api_returned", !.session = session, !.returned_at = op]

\* Lines 47-50: run_tmux gives Err when tmux cannot be run or exits with a
\* failure status; tmux new-session -s exits with "duplicate session" when
\* the name is already in use.
new_session_result(session, spawn_ok) ==
    IF ~(spawn_ok /\ CanSpawn) THEN Err("new-session failed")
    ELSE IF session \in sessions THEN Err("duplicate session")
    ELSE Ok(<<>>)

NewSession(session, spawn_ok) ==
    /\ wp.pc = "idle"
    /\ wp' = ApiReturned("new_session", session)
    /\ wp_result' = Some(new_session_result(session, spawn_ok))
    /\ sessions' = IF new_session_result(session, spawn_ok).ok
                   THEN sessions \cup {session}
                   ELSE sessions
    /\ UNCHANGED <<fmtVars, tmux_installed, sent, connVars, waitVars>>

\* Session::ensure_exists, lines 126-131
SessionEnsureExists(session, spawn_ok) ==
    /\ wp.pc = "idle"
    /\ wp' = ApiReturned("ensure_exists", session)
    /\ IF has_session(session)
       THEN /\ wp_result' = Some(Ok(<<>>))
            /\ UNCHANGED sessions
       ELSE /\ wp_result' = Some(new_session_result(session, spawn_ok))
            /\ sessions' = IF new_session_result(session, spawn_ok).ok
                           THEN sessions \cup {session}
                           ELSE sessions
    /\ UNCHANGED <<fmtVars, tmux_installed, sent, connVars, waitVars>>

\* Session::execute, lines 134-137
SessionExecute(session, command, create_ok, send_ok) ==
    /\ wp.pc = "idle"
    /\ wp' = ApiReturned("execute", session)
    /\ IF ~has_session(session) /\ ~new_session_result(session, create_ok).ok
       THEN /\ wp_result' = Some(new_session_result(session, create_ok))
            /\ UNCHANGED <<sessions, sent>>
       ELSE /\ sessions' = sessions \cup {session}
            /\ IF send_ok /\ CanSpawn
               THEN /\ sent' = Append(sent, [session |-> session, command |-> command])
                    /\ wp_result' = Some(Ok(<<>>))
               ELSE /\ wp_result' = Some(Err("send-keys failed"))
                    /\ UNCHANGED sent
    /\ UNCHANGED <<fmtVars, tmux_installed, connVars, waitVars>>

\* Session::capture, lines 140-142
SessionCapture(session, outcome) ==
    /\ wp.pc = "idle"
    /\ CaptureCan(session, outcome)
    /\ wp' = ApiReturned("capture", session)
    /\ wp_result' = Some(run_tmux_capture(outcome))
    /\ sessions' = SessionsAfterCapture(session, run_tmux_capture(outcome).ok)
    /\ UNCHANGED <<fmtVars, tmux_installed, sent, connVars, waitVars>>

\* Session::kill, lines 155-157
SessionKill(session, spawn_ok) ==
    /\ wp.pc = "idle"
    /\ wp' = ApiReturned("kill", session)
    /\ IF spawn_ok /\ has_session(session)
       THEN /\ sessions' = sessions \ {session}
            /\ wp_result' = Some(Ok(<<>>))
       ELSE /\ wp_result' = Some(Err("kill-session failed"))
            /\ UNCHANGED sessions
    /\ UNCHANGED <<fmtVars, tmux_installed, sent, connVars, waitVars>>

(***************************************************************************)
(* batch.rs: execute_batch, lines 45-148.  An element of the commands      *)
(* array is None when it is not a string (as_str() fails, line 74).  The   *)
(* data carries no explanations array: every explanation is empty.         *)
(***************************************************************************)
CmdPadded == <<" ", "d", "f", " ">>

BatchEntries == {None, Some(CmdBlank), Some(CmdPadded), Some(CmdRm)}

MaxBatchLen == 3

Batches == UNION {[1..n -> BatchEntries] : n \in 0..MaxBatchLen}

BatchCommandResult(index, command, success, status, output_preview, error) ==
    [index |-> index, command |-> command, explanation |-> <<>>, success |-> success,
     status |-> status, output_preview |-> output_preview, error |-> error]

\* Lines 103-107 and 115-119: the first 6 lines, or None when that is empty.
OutputPreview(output) ==
    IF Join(Take(Lines(output), 6), <<LF>>) = <<>> THEN None
    ELSE Some(Join(Take(Lines(output), 6), <<LF>>))

BatchStart == [panicked |-> FALSE, commands |-> <<>>, successful |-> 0, failed |-> 0,
               sent |-> <<>>]

\* Line 100: the parsed output is dropped; the call matters only when it
\* does not return, which is parse_ls_long adding sizes beyond u64.
BatchParsePanics(output, command, overflow_checks) ==
    /\ DetectFormat(output, command) = "ls_long"
    /\ parse_intelligently(output, command, overflow_checks, <<>>).panicked

\* Lines 91-138 for one command: send_keys, then capture, parse and push.
BatchStep(acc, index, command, session, send_ok, outcome, overflow_checks) ==
    IF ~(send_ok /\ CanSpawn)
    THEN [acc EXCEPT !.commands = Append(@, BatchCommandResult(index, command, FALSE,
                                                "error", None, Some("send-keys failed"))),
                     !.failed = @ + 1]
    ELSE IF BatchParsePanics(CapturedText(outcome), command, overflow_checks)
    THEN [acc EXCEPT !.panicked = TRUE,
                     !.sent = Append(@, [session |-> session, command |-> command])]
    ELSE [acc EXCEPT !.commands = Append(@, BatchCommandResult(index, command, TRUE,
                                                "success",
                                                OutputPreview(CapturedText(outcome)),
                                                None)),
                     !.successful = @ + 1,
                     !.sent = Append(@, [session |-> session, command |-> command])]

\* Lines 72-139 with the loop left at the first send that fails.
RECURSIVE BatchLoop_StopsOnFailure(_, _, _, _, _, _, _)
BatchLoop_StopsOnFailure(acc, idx, commands_arr, session, sends_ok, outcome, overflow_checks) ==
    IF idx >= Len(commands_arr) \/ acc.panicked \/ acc.failed > 0 THEN acc
    ELSE IF commands_arr[idx + 1] = None \/ Trim(commands_arr[idx + 1][1]) = <<>>
    THEN BatchLoop_StopsOnFailure(acc, idx + 1, commands_arr, session, sends_ok, outcome,
                                  overflow_checks)
    ELSE BatchLoop_StopsOnFailure(
             BatchStep(acc, idx + 1, Trim(commands_arr[idx + 1][1]), session,
                       sends_ok[idx + 1], outcome, overflow_checks),
             idx + 1, commands_arr, session, sends_ok, outcome, overflow_checks)

\* Lines 72-139: `for (idx, cmd_val) in commands_arr.iter().enumerate()` from
\* the element after the first idx ones; an element that is no string or is
\* empty once trimmed is passed over.
RECURSIVE BatchLoop(_, _, _, _, _, _, _)
BatchLoop(acc, idx, commands_arr, session, sends_ok, outcome, overflow_checks) ==
    IF idx >= Len(commands_arr) \/ acc.panicked THEN acc
    ELSE IF commands_arr[idx + 1] = None \/ Trim(commands_arr[idx + 1][1]) = <<>>
    THEN BatchLoop(acc, idx + 1, commands_arr, session, sends_ok, outcome, overflow_checks)
    ELSE BatchLoop(BatchStep(acc, idx + 1, Trim(commands_arr[idx + 1][1]), session,
                             sends_ok[idx + 1], outcome, overflow_checks),
                   idx + 1, commands_arr, session, sends_ok, outcome, overflow_checks)

\* Lines 141-147: the summary and the result.
BatchExecutionResult(total_commands, acc) ==
    [total_commands |-> total_commands, successful |-> acc.successful,
     failed |-> acc.failed, commands |-> acc.commands,
     summary |-> <<"Batch executed ">> \o ToDecimal(total_commands)
                     \o <<" commands: ">> \o ToDecimal(acc.successful)
                     \o <<" succeeded, ">> \o ToDecimal(acc.failed) \o <<" failed">>]

BatchReturns(session, commands_arr, acc) ==
    /\ sent' = sent \o acc.sent
    /\ IF acc.panicked
       THEN /\ wp' = [ApiReturned("execute_batch", session) EXCEPT
                         !.pc = "panicked", !.commands = commands_arr]
            /\ wp_result' = None
       ELSE /\ wp' = [ApiReturned("execute_batch", session) EXCEPT
                         !.commands = commands_arr]
            /\ wp_result' = Some(Ok(BatchExecutionResult(Len(commands_arr), acc)))

\* execute_batch(data, config) with data.commands = commands_arr and
\* data.session = session.
ExecuteBatch(session, commands_arr, create_ok, sends_ok, outcome, overflow_checks) ==
    /\ wp.pc = "idle"
    /\ IF ~has_session(session) /\ ~new_session_result(session, create_ok).ok
       THEN /\ wp' = [ApiReturned("execute_batch", session) EXCEPT
                         !.commands = commands_arr]
            /\ wp_result' = Some(Err("Failed to create session"))
            /\ UNCHANGED <<sessions, sent>>
       ELSE /\ sessions' = sessions \cup {session}
            /\ BatchReturns(session, commands_arr,
                            BatchLoop(BatchStart, 0, commands_arr, session, sends_ok,
                                      outcome, overflow_checks))
    /\ UNCHANGED <<fmtVars, tmux_installed, connVars, waitVars>>

\* The elements of the array for which send_keys is called.
SentRows(commands_arr) ==
    {i \in 1..Len(commands_arr) :
        commands_arr[i] # None /\ Trim(commands_arr[i][1]) # <<>>}

\* What the captures of one batch give.
BatchCaptures == {[kind |-> "exit_failure", text |-> <<>>], [kind |-> "ok", text |-> CapPrompt]}

NextSession ==
    \/ \E s \in SessionNames, w \in DirectWaits : WaitForPrompt(s, w[1], w[2])
    \/ \E s \in SessionNames, c \in Commands, mw \in ConfigMaxWaitSeconds,
          pi \in ConfigPollIntervalMs, create_ok, send_ok \in BOOLEAN :
            SessionExecuteAndWait(s, c, mw, pi, create_ok, send_ok)
    \/ \E outcome \in PollOutcomes : WpPoll(outcome)
    \/ WpExhausted
    \/ WpReset
    \/ \E s \in SessionNames, spawn_ok \in BOOLEAN : NewSession(s, spawn_ok)
    \/ \E s \in SessionNames, spawn_ok \in BOOLEAN : SessionEnsureExists(s, spawn_ok)
    \/ \E s \in SessionNames, c \in Commands, create_ok, send_ok \in BOOLEAN :
          SessionExecute(s, c, create_ok, send_ok)
    \/ \E s \in SessionNames, outcome \in PollOutcomes : SessionCapture(s, outcome)
    \/ \E s \in SessionNames, spawn_ok \in BOOLEAN : SessionKill(s, spawn_ok)
    \/ \E s \in SessionNames, commands_arr \in Batches, create_ok \in BOOLEAN,
          outcome \in BatchCaptures, overflow_checks \in BOOLEAN :
            \E sends_ok \in [SentRows(commands_arr) -> BOOLEAN] :
               ExecuteBatch(s, commands_arr, create_ok, sends_ok, outcome, overflow_checks)

SpecSession == Init /\ [][NextSession]_vars

(***************************************************************************)
(* The classifier on its own: detect_format applied to one (output,        *)
(* command) pair drawn from FormatOutputs and FormatCommands.              *)
(***************************************************************************)
InitFormat ==
    /\ fmtRaw \in FormatOutputs
    /\ fmtCmd \in FormatCommands
    /\ fmtResult = None
    /\ parseResult = None
    /\ displayResult = None
    /\ tmux_installed = TRUE
    /\ sessions = {}
    /\ sent = <<>>
    /\ ConnIdle
    /\ WaitIdleState
    /\ WpIdleState

Classify ==
    /\ fmtResult = None
    /\ fmtResult' = Some(DetectFormat(fmtRaw, fmtCmd))
    /\ UNCHANGED <<fmtRaw, fmtCmd, parseResult, displayResult, backendVars, connVars, waitVars, wpVars>>

NextFormat == Classify

SpecFormat == InitFormat /\ [][NextFormat]_vars

(***************************************************************************)
(* The extractors on their own: parse_intelligently and                    *)
(* DisplayOutput::from_command_output applied to one (raw text, command)   *)
(* pair drawn from ParseRaws and ParseCommands.                            *)
(***************************************************************************)
PC_Empty == <<>>
PC_Cat == <<"c", "a", "t", " ", "f">>
PC_DfH == <<"d", "f", " ", "-", "h">>
PC_SystemctlStatus ==
    <<"s", "y", "s", "t", "e", "m", "c", "t", "l", " ", "s", "t", "a", "t", "u", "s">>
PC_Nmap == <<"n", "m", "a", "p", " ", "-", "s", "V", " ", "h">>
PC_Netstat == <<"n", "e", "t", "s", "t", "a", "t", " ", "-", "t", "n">>
PC_Ps == <<"p", "s", " ", "a", "u", "x">>
PC_LsL == <<"l", "s", " ", "-", "l">>
PC_IpAddr == <<"i", "p", " ", "a", "d", "d", "r">>
PC_Journalctl == <<"j", "o", "u", "r", "n", "a", "l", "c", "t", "l", " ", "-", "b">>
PC_Lsblk == <<"l", "s", "b", "l", "k">>
PR_Empty == <<>>
PR_Df ==
    <<"F", "i", "l", "e", "s", "y", "s", "t", "e", "m", " ", "S", "i", "z", "e", " ",
      "U", "s", "e", "d", " ", "A", "v", "a", "i", "l", " ", "U", "s", "e", "%", " ",
      "M", "o", "u", "n", "t", "e", "d", " ", "o", "n", LF, "/", "d", "e", "v", "/",
      "s", "d", "a", "1", " ", "1", "0", "0", "G", " ", "9", "6", "G", " ", "2", "G",
      " ", "9", "6", "%", " ", "/", LF>>
PR_DfRow ==
    <<"/", "d", "e", "v", "/", "s", "d", "a", "1", " ", "1", "0", "0", "G", " ", "9",
      "6", "G", " ", "2", "G", " ", "9", "6", "%", " ", "/">>
PR_DfBounds ==
    <<"/", "d", "e", "v", "/", "b", " ", "9", "G", " ", "8", "G", " ", "1", "G", " ",
      "8", "5", "%", " ", "/", "b", LF, "/", "d", "e", "v", "/", "a", " ", "9", "G",
      " ", "9", "G", " ", "0", " ", "9", "5", "%", " ", "/", "a", LF, "/", "d", "e",
      "v", "/", "c", " ", "9", "G", " ", "7", "G", " ", "2", "G", " ", "8", "0", "%",
      " ", "/", "c", LF, "/", "d", "e", "v", "/", "d", " ", "9", "G", " ", "8", "G",
      " ", "1", "G", " ", "9", "0", "%", " ", "/", "d", LF, "/", "d", "e", "v", "/",
      "e", " ", "9", "G", " ", "8", "G", " ", "1", "G", " ", "9", "1", "%", " ", "/",
      "e", LF, "/", "d", "e", "v", "/", "f", " ", "9", "G", " ", "7", "G", " ", "2",
      "G", " ", "8", "1", "%", " ", "/", "f", LF>>
PR_DfMalformed ==
    <<"/", "d", "e", "v", "/", "x", " ", "1", "G", " ", "1", "G", " ", "0", " ", "3",
      "0", "0", "%", " ", "/", "x", LF, "/", "d", "e", "v", "/", "y", " ", "1", "G",
      " ", "1", "G", " ", "0", " ", "a", "b", "c", "%", " ", "/", "y", LF, "s", "h",
      "o", "r", "t", " ", "5", "0", "%", LF, "/", "d", "e", "v", "/", "z", " ", "1",
      "G", " ", "1", "G", " ", "0", " ", "+", "7", "%", " ", "/", "z", LF, "/", "d",
      "e", "v", "/", "w", " ", "1", "G", " ", "1", "G", " ", "0", " ", "9", "2", "%",
      "%", " ", "/", "w", LF, "1", "0", "0", "%", " ", "a", " ", "b", " ", "c", " ",
      "d", LF, "%", " ", "%", " ", "%", " ", "%", " ", "%", LF>>
PR_Systemctl ==
    <<"n", "g", "i", "n", "x", ".", "s", "e", "r", "v", "i", "c", "e", " ", "l", "o",
      "a", "d", "e", "d", " ", "f", "a", "i", "l", "e", "d", " ", "f", "a", "i", "l",
      "e", "d", " ", "W", "e", "b", " ", "s", "e", "r", "v", "e", "r", LF, "s", "s",
      "h", "d", ".", "s", "e", "r", "v", "i", "c", "e", " ", "l", "o", "a", "d", "e",
      "d", " ", "a", "c", "t", "i", "v", "e", " ", "(", "r", "u", "n", "n", "i", "n",
      "g", ")", " ", "O", "p", "e", "n", "S", "S", "H", LF>>
PR_SystemctlActive ==
    <<"U", "N", "I", "T", " ", "L", "O", "A", "D", " ", "A", "C", "T", "I", "V", "E",
      " ", "S", "U", "B", LF, "s", "s", "h", "d", ".", "s", "e", "r", "v", "i", "c",
      "e", " ", "l", "o", "a", "d", "e", "d", " ", "a", "c", "t", "i", "v", "e", " ",
      "(", "r", "u", "n", "n", "i", "n", "g", ")", LF, " ", " ", "c", "r", "o", "n",
      ".", "s", "e", "r", "v", "i", "c", "e", " ", "l", "o", "a", "d", "e", "d", " ",
      "a", "c", "t", "i", "v", "e", " ", "e", "x", "i", "t", "e", "d", LF, ".", " ",
      "n", "g", "i", "n", "x", ".", "s", "e", "r", "v", "i", "c", "e", " ", "f", "a",
      "i", "l", "e", "d", LF>>
PR_Nmap ==
    <<"S", "t", "a", "r", "t", "i", "n", "g", " ", "N", "m", "a", "p", " ", "7", ".",
      "8", "0", LF, "N", "m", "a", "p", " ", "s", "c", "a", "n", " ", "r", "e", "p",
      "o", "r", "t", " ", "f", "o", "r", " ", "h", LF, "H", "o", "s", "t", " ", "i",
      "s", " ", "u", "p", " ", "(", "0", ".", "0", "1", "s", " ", "l", "a", "t", "e",
      "n", "c", "y", ")", ".", LF, "2", "2", "/", "t", "c", "p", " ", "o", "p", "e",
      "n", " ", "s", "s", "h", LF, "8", "0", "/", "t", "c", "p", " ", "o", "p", "e",
      "n", LF, "4", "4", "3", "/", "t", "c", "p", " ", "c", "l", "o", "s", "e", "d",
      " ", "h", "t", "t", "p", "s", LF>>
PR_Netstat ==
    <<"t", "c", "p", " ", "0", " ", "0", " ", "1", ".", "2", ".", "3", ".", "4", ":",
      "2", "2", " ", "5", ".", "6", ".", "7", ".", "8", ":", "9", "9", "9", " ", "E",
      "S", "T", "A", "B", "L", "I", "S", "H", "E", "D", LF, "t", "c", "p", " ", "0",
      " ", "0", " ", "0", ".", "0", ".", "0", ".", "0", ":", "8", "0", " ", "0", ".",
      "0", ".", "0", ".", "0", ":", "*", " ", "L", "I", "S", "T", "E", "N", LF, "t",
      "c", "p", " ", "E", "S", "T", "A", "B", "L", "I", "S", "H", "E", "D", LF>>
PR_Ps ==
    <<" ", " ", "P", "I", "D", " ", "T", "T", "Y", " ", "T", "I", "M", "E", " ", "C",
      "M", "D", LF, " ", "1", " ", "?", " ", "0", "0", ":", "0", "0", " ", "i", "n",
      "i", "t", LF, LF, " ", "2", " ", "?", " ", "0", "0", ":", "0", "0", " ", "s",
      "h", LF>>
PR_Ls ==
    <<"t", "o", "t", "a", "l", " ", "8", LF, "d", "r", "w", "x", "r", "-", "x", "r",
      "-", "x", " ", "2", " ", "u", " ", "g", " ", "4", "0", "9", "6", " ", "J", "a",
      "n", " ", "1", " ", "d", LF, "-", "r", "w", "-", "r", "-", "-", "r", "-", "-",
      " ", "1", " ", "u", " ", "g", " ", "1", "2", "0", " ", "J", "a", "n", " ", "1",
      " ", "f", LF, "-", "r", "w", "-", "r", "-", "-", "r", "-", "-", " ", "1", " ",
      "u", " ", "g", " ", "x", "x", " ", "J", "a", "n", " ", "1", " ", "g", LF, "-",
      "r", "w", " ", "1", LF>>
PR_LsHuge ==
    <<"-", "r", "w", "-", "r", "-", "-", "r", "-", "-", " ", "1", " ", "u", " ", "g",
      " ", "1", "8", "4", "4", "6", "7", "4", "4", "0", "7", "3", "7", "0", "9", "5",
      "5", "1", "6", "1", "5", " ", "J", "a", "n", " ", "1", " ", "a", LF, "-", "r",
      "w", "-", "r", "-", "-", "r", "-", "-", " ", "1", " ", "u", " ", "g", " ", "1",
      " ", "J", "a", "n", " ", "1", " ", "b", LF, "-", "r", "w", "-", "r", "-", "-",
      "r", "-", "-", " ", "1", " ", "u", " ", "g", " ", "1", "8", "4", "4", "6", "7",
      "4", "4", "0", "7", "3", "7", "0", "9", "5", "5", "1", "6", "1", "6", " ", "J",
      "a", "n", " ", "1", " ", "c", LF>>
PR_Ip ==
    <<"1", ":", " ", "l", "o", ":", " ", "<", "L", "O", "O", "P", "B", "A", "C", "K",
      ">", LF, " ", " ", " ", " ", "i", "n", "e", "t", " ", "1", "2", "7", ".", "0",
      ".", "0", ".", "1", "/", "8", " ", "s", "c", "o", "p", "e", " ", "h", "o", "s",
      "t", " ", "l", "o", LF, "2", ":", " ", "e", "t", "h", "0", ":", " ", "<", "U",
      "P", ">", LF, " ", " ", " ", " ", "i", "n", "e", "t", " ", "1", "0", ".", "0",
      ".", "0", ".", "5", "/", "2", "4", " ", "b", "r", "d", LF, " ", " ", " ", " ",
      "i", "n", "e", "t", "6", " ", ":", ":", "1", "/", "1", "2", "8", LF, " ", "i",
      "n", "e", "t", " ", "1", ".", "2", ".", "3", "/", "8", LF>>
PR_Journal ==
    <<"J", "a", "n", " ", "1", " ", "h", " ", "s", "y", "s", "t", "e", "m", "d", "[",
      "1", "]", ":", " ", "n", "g", "i", "n", "x", ".", "s", "e", "r", "v", "i", "c",
      "e", ":", " ", "F", "a", "i", "l", "e", "d", " ", "w", "i", "t", "h", " ", "r",
      "e", "s", "u", "l", "t", LF, "J", "a", "n", " ", "1", " ", "h", " ", "k", ":",
      " ", "w", "a", "r", "n", "i", "n", "g", ":", " ", "l", "o", "w", LF, "1", " ",
      "f", "o", "o", ".", "s", "e", "r", "v", "i", "c", "e", " ", "f", "a", "i", "l",
      "e", "d", LF, "J", "a", "n", " ", "1", " ", "o", "k", LF>>
\* 24 numbered lines, errors and warnings alternating, then a line that
\* names both a failure and a warning, and the same service failing again.
PR_JournalMany ==
    Flatten([k \in 1..24 |->
                (IF k % 2 = 1 THEN <<"E", "r", "r", "o", "r", " ">>
                              ELSE <<"w", "a", "r", "n", " ">>)
                \o ToDecimal(k) \o <<LF>>])
    \o <<"a", ".", "s", "e", "r", "v", "i", "c", "e", " ", "f", "a", "i", "l", " ",
         "w", "a", "r", "n", LF,
         "a", ".", "s", "e", "r", "v", "i", "c", "e", " ", "f", "a", "i", "l", "e", "d", LF>>
PR_JournalWarn ==
    <<"J", "a", "n", " ", "1", " ", "h", " ", "k", ":", " ", "W", "a", "r", "n", "i",
      "n", "g", ":", " ", "l", "o", "w", LF, "J", "a", "n", " ", "1", " ", "o", "k", LF>>
PR_JsonObj ==
    <<"{", DQ, "a", DQ, ":", " ", "1", ",", " ", DQ, "b", DQ, ":", " ", "[", "t", "r",
      "u", "e", ",", " ", "n", "u", "l", "l", ",", " ", DQ, "x", BSL, DQ, "y", DQ, "]",
      ",", " ", DQ, "a", DQ, ":", " ", "2", "}">>
PR_JsonArr ==
    <<"[", "1", ",", " ", "2", ",", " ", "{", DQ, "k", DQ, ":", " ", DQ, "v", DQ, "}",
      ",", " ", "[", "]", ",", " ", "{", "}", ",", " ", "-", "3", ",", " ", "f", "a",
      "l", "s", "e", "]", LF>>
PR_JsonTrailingComma == <<"{", DQ, "a", DQ, ":", " ", "1", ",", "}">>
PR_JsonOpen == <<"[", "1", ",", " ", "2">>
PR_JsonNoColon == <<"{", DQ, "a", DQ, " ", "1", "}">>
PR_JsonLeadingZero == <<"[", "0", "1", "]">>
PR_JsonRawNewline == <<"[", DQ, "x", LF, "y", DQ, "]">>
PR_JsonTrailing == <<"[", "]", " ", "x">>
PR_Table ==
    <<"|", " ", "a", " ", "|", " ", "b", " ", "|", LF, "|", " ", "1", " ", "|", " ",
      "2", " ", "|", LF, BoxBar, " ", "3", " ", BoxBar, " ", "4", " ", BoxBar, LF, "|",
      " ", "5", " ", "|", " ", "6", " ", "|", LF>>
PR_Plain == <<"h", "e", "l", "l", "o", LF, "w", "o", "r", "l", "d">>
PR_CrLf == <<"a", CR, LF, "b", CR, LF, CR, LF>>
PR_Glyph == <<GlyphRight, " ", "o", "k", " ", BoxBar, " ", GlyphBolt, LF>>

ParseCommands ==
    {PC_Empty, PC_Cat, PC_DfH, PC_SystemctlStatus, PC_Nmap, PC_Netstat, PC_Ps, PC_LsL,
     PC_IpAddr, PC_Journalctl, PC_Lsblk}

ParseRaws ==
    {PR_Empty, PR_Df, PR_DfRow, PR_DfBounds, PR_DfMalformed, PR_Systemctl,
     PR_SystemctlActive, PR_Nmap, PR_Netstat, PR_Ps, PR_Ls, PR_LsHuge, PR_Ip,
     PR_Journal, PR_JournalMany, PR_JournalWarn, PR_JsonObj, PR_JsonArr,
     PR_JsonTrailingComma, PR_JsonOpen, PR_JsonNoColon, PR_JsonLeadingZero,
     PR_JsonRawNewline, PR_JsonTrailing, PR_Table, PR_Plain, PR_CrLf, PR_Glyph}

InitParse ==
    /\ fmtRaw \in ParseRaws
    /\ fmtCmd \in ParseCommands
    /\ fmtResult = None
    /\ parseResult = None
    /\ displayResult = None
    /\ tmux_installed = TRUE
    /\ sessions = {}
    /\ sent = <<>>
    /\ ConnIdle
    /\ WaitIdleState
    /\ WpIdleState

\* parse_intelligently(raw, command), as batch.rs line 100 calls it
ParseIntelligently(overflow_checks, hash_order) ==
    /\ parseResult = None
    /\ parseResult' = Some(parse_intelligently(fmtRaw, fmtCmd, overflow_checks, hash_order))
    /\ UNCHANGED <<fmtRaw, fmtCmd, fmtResult, displayResult, backendVars, connVars, waitVars,
                   wpVars>>

\* DisplayOutput::from_command_output(command, raw_output, 0)
FromCommandOutput(overflow_checks, hash_order) ==
    /\ displayResult = None
    /\ displayResult' = Some(from_command_output(fmtCmd, fmtRaw, 0, overflow_checks, hash_order))
    /\ UNCHANGED <<fmtRaw, fmtCmd, fmtResult, parseResult, backendVars, connVars, waitVars,
                   wpVars>>

NextParse ==
    \/ \E overflow_checks \in BOOLEAN, hash_order \in HashOrders(fmtRaw, fmtCmd) :
          ParseIntelligently(overflow_checks, hash_order)
    \/ \E overflow_checks \in BOOLEAN, hash_order \in HashOrders(fmtRaw, fmtCmd) :
          FromCommandOutput(overflow_checks, hash_order)

SpecParse == InitParse /\ [][NextParse]_vars

(***************************************************************************)
(* Properties.                                                             *)
(***************************************************************************)
ReturnedStable == pc = "waited" /\ wait_result # None /\ wait_result[1].success
ReturnedTimedOut == pc = "waited" /\ wait_result # None /\ ~wait_result[1].success

PromptGlyphs == {"$", "#", ">", GlyphRight, GlyphLeft, GlyphBolt}

IsPasswordPrompt(line) ==
    \/ Contains(ToLowercase(line), <<"p", "a", "s", "s", "w", "o", "r", "d", " ", "f", "o", "r">>)
    \/ Contains(ToLowercase(line), <<"[", "s", "u", "d", "o", "]">>)

\* C1: one invocation of the completion detector, whatever the captures
\* (failed ones included), ends in exactly one of Stable(text) and
\* TimedOut(partialText), which the caller can tell apart, and Stable is
\* returned only after at least 3 consecutive identical captures.  For
\* wait_for_command_completion the tag is the success flag of the Response;
\* for wait_for_prompt it is the place the function returned from.
C1_ExactlyOneTaggedOutcome ==
    /\ pc = "waited" =>
          /\ wait_result # None
          /\ wait_result[1].success <=> wait_result[1].exists = Some(TRUE)
          /\ wait_result[1].success => wait.stable_count >= 3
    /\ (wp.pc = "returned" /\ wp.returned_at # "execute") =>
          /\ wp_result # None
          /\ wp_result[1].ok
          /\ wp.returned_at \in {"stable", "timeout"}
          /\ wp.returned_at = "stable" => wp.stable_count >= 3

\* C2: at every poll of wait_for_command_completion the detector returns
\* Stable iff, on that poll, stableCount >= 3, the last line of the trimmed
\* capture holds a prompt glyph, the command is empty or does not occur in
\* that line, and that line is no password prompt; the text returned is
\* then the full capture of that poll.
C2_StableIffAllFour ==
    (pc \in {"wait", "waited"} /\ poll.kind # "none") =>
        LET last_line == LastLine(poll.text)
            all_four  == /\ poll.kind = "ok"
                         /\ wait.stable_count >= 3
                         /\ \E g \in PromptGlyphs : ContainsChar(last_line, g)
                         /\ (wait.command = <<>> \/ ~Contains(last_line, wait.command))
                         /\ ~IsPasswordPrompt(last_line)
        IN  /\ ReturnedStable <=> all_four
            /\ ReturnedStable => wait_result[1].output = Some(poll.text)

C2_Witness ==
    /\ ReturnedStable
    /\ poll.text = CapPrompt
    /\ wait.command = CmdDf
    /\ wait.stable_count = 3

\* C3: while the last line of the capture is a password prompt ("password
\* for" or "[sudo]", in any case), the detector does not return Stable,
\* whatever the stability count and even when the line holds a prompt glyph;
\* the invocation can then only end in TimedOut.
C3_PasswordPromptNeverStable ==
    /\ (pc \in {"wait", "waited"} /\ poll.kind = "ok"
        /\ IsPasswordPrompt(LastLine(poll.text))) => ~ReturnedStable
    /\ ReturnedStable => ~IsPasswordPrompt(LastLine(wait_result[1].output[1]))

C3_Witness ==
    /\ ReturnedTimedOut
    /\ poll.kind = "ok"
    /\ poll.text = CapSudo
    /\ wait.stable_count >= 3
    /\ \E g \in PromptGlyphs : ContainsChar(LastLine(poll.text), g)

\* C4: a wait that ends without completion returns TimedOut with the most
\* recent successfully captured text (empty when no capture succeeded), and
\* execute_and_wait / execute_analyzed answer it with status "timeout",
\* success false and raw_output equal to that text.
C4_TimeoutCarriesLastCapture ==
    (pc \in {"waited", "closed"} /\ wait_result # None /\ ~wait_result[1].success) =>
        /\ wait_result[1].output = Some(OrDefault(captured, <<>>))
        /\ (pc = "closed" /\ wait.caller \in {"execute_and_wait", "execute_analyzed"}) =>
              /\ Len(written) = 1
              /\ written[1].status = "timeout"
              /\ written[1].success = FALSE
              /\ written[1].raw_output = OrDefault(captured, <<>>)

C4_Witness ==
    /\ pc = "closed"
    /\ wait.caller = "execute_analyzed"
    /\ wait_result # None
    /\ ~wait_result[1].success
    /\ captured = Some(CapEcho)
    /\ poll.kind = "invalid_utf8"
    /\ Len(written) = 1

\* C5: the completion detector always terminates by returning, and when the
\* command never completes it returns TimedOut with the partial text, having
\* blocked no longer than maxWait plus one poll interval.
C5_ReturnsTimedOutInTime ==
    /\ pc = "waited" => wait.elapsed <= wait.max_duration + wait.check_interval
    /\ wp.pc # "panicked"
    /\ (wp.pc = "returned" /\ wp.returned_at \notin {"execute", "stable"}) =>
          /\ wp_result[1] = Ok(wp.previous_output)
          /\ wp.iteration * wp.poll_interval_ms <= wp.max_wait_ms + wp.poll_interval_ms

\* C6: the detector's effective maximum wait is min(caller value, 3,600,000
\* ms) and its effective poll interval max(caller value, 100 ms); a poll
\* interval of 0 gives neither a zero-length sleep nor a division by zero.
C6_WaitParametersClamped ==
    /\ pc = "wait" =>
          /\ wait.max_duration <= 3600000
          /\ wait.check_interval >= 100
    /\ wp.pc # "panicked"
    /\ wp.pc = "loop" =>
          /\ wp.max_wait_ms <= 3600000
          /\ wp.poll_interval_ms >= 100

StepBefore(a, b) ==
    \A j \in 1..Len(steps) : steps[j] = b => \E i \in 1..(j - 1) : steps[i] = a

\* C7: for execute, execute_and_wait and execute_analyzed the command is
\* validated, then the session is created if absent, then the command is
\* sent, and only then the wait starts; classification runs only on the text
\* the wait returned.  No step is skipped.
C7_PipelineOrder ==
    (request # None
     /\ request[1].action \in {"execute", "execute_and_wait", "execute_analyzed"}) =>
        /\ StepBefore("validate", "send_keys")
        /\ StepBefore("has_session", "send_keys")
        /\ StepBefore("send_keys", "wait")
        /\ StepBefore("wait", "detect_format")
        /\ \A i \in 1..Len(sent) : validate_command(sent[i].command) = "ok"

\* C8: every connection handled by handle_client gets exactly one JSON
\* response, whatever happens while reading or serving the request.
C8_ExactlyOneResponse ==
    pc = "closed" => Len(written) = 1

Formats ==
    {"nmap", "network_table", "process_table", "ls_long", "ip_addr", "systemctl",
     "disk_usage", "block_devices", "journalctl", "json", "table", "plain_text"}

\* The command-tier rules, in the order in which they are tried.
RuleFormat ==
    <<"nmap", "network_table", "process_table", "ls_long", "ip_addr", "systemctl",
      "disk_usage", "block_devices", "journalctl">>

Has(command, word) == Contains(ToLowercase(command), word)

RuleMatches(i, command) ==
    CASE i = 1 -> Has(command, <<"n", "m", "a", "p">>)
      [] i = 2 -> Has(command, <<"n", "e", "t", "s", "t", "a", "t">>)
                  \/ Has(command, <<"s", "s">>)
      [] i = 3 -> Has(command, <<"p", "s">>) \/ Has(command, <<"t", "o", "p">>)
      [] i = 4 -> Has(command, <<"l", "s">>)
                  /\ (Has(command, <<"-", "l">>)
                      \/ Has(command, <<"-", "-", "l", "o", "n", "g">>))
      [] i = 5 -> Has(command, <<"i", "p">>)
                  /\ (Has(command, <<"a", "d", "d", "r">>)
                      \/ Has(command, <<"i", "p", " ", "a">>))
      [] i = 6 -> Has(command, <<"s", "y", "s", "t", "e", "m", "c", "t", "l">>)
      [] i = 7 -> Has(command, <<"d", "f">>)
      [] i = 8 -> Has(command, <<"l", "s", "b", "l", "k">>)
      [] i = 9 -> Has(command, <<"j", "o", "u", "r", "n", "a", "l", "c", "t", "l">>)

CommandRuleFires(command) == \E i \in 1..9 : RuleMatches(i, command)

FirstRule(command) ==
    CHOOSE i \in 1..9 :
        RuleMatches(i, command) /\ \A j \in 1..(i - 1) : ~RuleMatches(j, command)

ContentRuleFires(output) ==
    \/ Has(output, <<"s", "t", "a", "r", "t", "i", "n", "g", " ", "n", "m", "a", "p">>)
    \/ Has(output, <<"h", "o", "s", "t", " ", "i", "s", " ", "u", "p">>)
    \/ (Has(output, <<"t", "c", "p">>)
        /\ Has(output, <<"e", "s", "t", "a", "b", "l", "i", "s", "h", "e", "d">>))
    \/ Cardinality({i \in 1..Len(Lines(output)) :
            \E k \in 1..Len(Lines(output)[i]) :
                Lines(output)[i][k] \in {"|", BoxBar}}) > 3
    \/ (Len(output) > 0 /\ output[1] \in {"{", "["})

\* C9: detect_format is total: every (raw text, command), the empty string
\* included, gets exactly one format, and that format is plain_text exactly
\* when no command-tier rule and no content-tier rule fires.
C9_DetectFormatTotal ==
    fmtResult # None =>
        /\ fmtResult[1] \in Formats
        /\ fmtResult[1] = "plain_text" <=>
              (~CommandRuleFires(fmtCmd) /\ ~ContentRuleFires(fmtRaw))

C9_Witness ==
    /\ fmtResult = Some("plain_text")
    /\ fmtCmd = <<>>
    /\ fmtRaw = <<>>

\* C10: the command-tier rules are tried in the order nmap, network_table,
\* process_table, ls_long, ip_addr, systemctl, disk_usage, block_devices,
\* journalctl on the lower-cased command and the first that matches wins;
\* the raw text is consulted only when none matches, so for a command that
\* matches a rule the result is the same for every raw text.
C10_CommandTierPriority ==
    (fmtResult # None /\ CommandRuleFires(fmtCmd)) =>
        /\ fmtResult[1] = RuleFormat[FirstRule(fmtCmd)]
        /\ \A o \in FormatOutputs : DetectFormat(o, fmtCmd) = fmtResult[1]

C10_Witness ==
    /\ fmtResult = Some("process_table")
    /\ fmtCmd = FC_DfTop
    /\ fmtRaw = FO_NmapStart

Parsed == parseResult # None /\ ~parseResult[1].panicked

\* The formats the specification enumerates.
EnumeratedFormats ==
    {"nmap", "network_table", "process_table", "ls_long", "ip_addr", "systemctl",
     "disk_usage", "journalctl", "json", "table", "plain_text"}

\* The formats each extractor is the extractor of.
ExtractorFormats(extractor) ==
    CASE extractor = "parse_nmap" -> {"nmap"}
      [] extractor = "parse_network_table" -> {"network_table"}
      [] extractor = "parse_process_table" -> {"process_table"}
      [] extractor = "parse_ls_long" -> {"ls_long"}
      [] extractor = "parse_ip_addr" -> {"ip_addr"}
      [] extractor = "parse_systemctl" -> {"systemctl"}
      [] extractor = "parse_disk_usage" -> {"disk_usage"}
      [] extractor = "parse_journalctl" -> {"journalctl"}
      [] extractor = "parse_json" -> {"json"}
      [] extractor = "parse_generic" -> {"table", "plain_text"}

\* C11: for every (raw text, command) given to parse_intelligently the
\* format in metadata.format_detected is one of the eleven enumerated
\* formats and is a format of the extractor that produced the structured
\* record.
C11_FormatEnumeratedAndOfExtractor ==
    Parsed =>
        /\ parseResult[1].metadata.format_detected \in EnumeratedFormats
        /\ parseResult[1].metadata.format_detected
              \in ExtractorFormats(parseResult[1].extractor)

ParsedBy(extractor) == Parsed /\ parseResult[1].extractor = extractor

\* The message of the finding for one filesystem entry.
RowMessage(entry) ==
    entry.filesystem \o <<" is ">> \o ToDecimal(entry.usage_percent) \o <<"% full">>

\* C12: for every row the disk-usage extractor accepts, with usage u, a
\* Critical finding is produced iff u > 90, a High finding iff 80 < u <= 90
\* and none iff u <= 80; a row gives at most one finding and there are no
\* other findings.
C12_DiskThresholds ==
    ParsedBy("parse_disk_usage") =>
        LET fs == parseResult[1].structured.filesystems
            fd == parseResult[1].findings
            Rows(m, lo, hi) ==
                {i \in 1..Len(fs) : /\ RowMessage(fs[i]) = m
                                    /\ lo < fs[i].usage_percent
                                    /\ fs[i].usage_percent <= hi}
            Finds(m, importance) ==
                {j \in 1..Len(fd) : fd[j].message = m /\ fd[j].importance = importance}
        IN  /\ \A i \in 1..Len(fs) :
                 /\ Cardinality(Finds(RowMessage(fs[i]), "Critical"))
                        = Cardinality(Rows(RowMessage(fs[i]), 90, 255))
                 /\ Cardinality(Finds(RowMessage(fs[i]), "High"))
                        = Cardinality(Rows(RowMessage(fs[i]), 80, 90))
            /\ Len(fd) = Cardinality({i \in 1..Len(fs) : fs[i].usage_percent > 80})
            /\ \A j \in 1..Len(fd) : fd[j].importance \in {"Critical", "High"}

\* Rows with 85, 95, 80, 90, 91 and 81 percent: High, Critical, none, High,
\* Critical, High.
C12_Witness ==
    /\ ParsedBy("parse_disk_usage")
    /\ fmtRaw = PR_DfBounds
    /\ [i \in 1..Len(parseResult[1].structured.filesystems) |->
           parseResult[1].structured.filesystems[i].usage_percent]
         = <<85, 95, 80, 90, 91, 81>>
    /\ [j \in 1..Len(parseResult[1].findings) |-> parseResult[1].findings[j].importance]
         = <<"High", "Critical", "High", "Critical", "High">>

S_dev_sda1 == <<"/", "d", "e", "v", "/", "s", "d", "a", "1">>

\* C13: for command df -h and a capture with the row
\* "/dev/sda1 100G 96G 2G 96% /", parse_intelligently selects disk_usage,
\* produces exactly one filesystem entry for the row, with usage_percent = 96,
\* and exactly one Critical finding whose message references /dev/sda1.
C13_DfScenario ==
    (/\ parseResult # None
     /\ fmtCmd = PC_DfH
     /\ Cardinality({i \in 1..Len(Lines(fmtRaw)) : Lines(fmtRaw)[i] = PR_DfRow}) = 1) =>
        /\ Parsed
        /\ parseResult[1].metadata.format_detected = "disk_usage"
        /\ LET fs == parseResult[1].structured.filesystems
               fd == parseResult[1].findings
           IN  /\ Cardinality({i \in 1..Len(fs) : fs[i].filesystem = S_dev_sda1}) = 1
               /\ \A i \in 1..Len(fs) :
                      fs[i].filesystem = S_dev_sda1 => fs[i].usage_percent = 96
               /\ Cardinality({j \in 1..Len(fd) :
                                   /\ fd[j].importance = "Critical"
                                   /\ Contains(fd[j].message, S_dev_sda1)}) = 1

\* The df -h capture with its header line and the row.
C13_Witness ==
    /\ ParsedBy("parse_disk_usage")
    /\ fmtCmd = PC_DfH
    /\ fmtRaw = PR_Df
    /\ Len(parseResult[1].structured.filesystems) = 1
    /\ parseResult[1].structured.filesystems[1].usage_percent = 96
    /\ Len(parseResult[1].findings) = 1
    /\ parseResult[1].findings[1].importance = "Critical"

HighFindings(findings) == {j \in 1..Len(findings) : findings[j].importance = "High"}

\* C14: for command systemctl status and the capture lines
\* "nginx.service loaded failed failed Web server" and
\* "sshd.service loaded active (running) OpenSSH" the result has format
\* systemctl, failed_services = ["nginx"], active_services = ["sshd"] and
\* exactly one High finding, the one for failed services; and for every
\* input of the systemctl extractor a High "Failed Services" finding is
\* produced iff failed_services is not empty.
C14_SystemctlScenario ==
    /\ (parseResult # None /\ fmtCmd = PC_SystemctlStatus /\ fmtRaw = PR_Systemctl) =>
          /\ Parsed
          /\ parseResult[1].metadata.format_detected = "systemctl"
          /\ parseResult[1].structured.failed_services = <<<<"n", "g", "i", "n", "x">>>>
          /\ parseResult[1].structured.active_services = <<<<"s", "s", "h", "d">>>>
          /\ Cardinality(HighFindings(parseResult[1].findings)) = 1
          /\ \A j \in HighFindings(parseResult[1].findings) :
                 parseResult[1].findings[j].category = "Failed Services"
    /\ ParsedBy("parse_systemctl") =>
          /\ Cardinality({j \in HighFindings(parseResult[1].findings) :
                 parseResult[1].findings[j].category = "Failed Services"})
               = IF parseResult[1].structured.failed_services # <<>> THEN 1 ELSE 0
          /\ Cardinality(HighFindings(parseResult[1].findings)) <= 1

C14_Witness ==
    /\ ParsedBy("parse_systemctl")
    /\ fmtCmd = PC_SystemctlStatus
    /\ fmtRaw = PR_Systemctl
    /\ Len(parseResult[1].findings) = 2
    /\ parseResult[1].findings[1].importance = "High"
    /\ parseResult[1].structured.failed_count = 1

\* A capture with no failed service gives no High finding.
C14_WitnessNoneFailed ==
    /\ ParsedBy("parse_systemctl")
    /\ fmtRaw = PR_SystemctlActive
    /\ parseResult[1].structured.failed_services = <<>>
    /\ parseResult[1].structured.active_count = 1
    /\ HighFindings(parseResult[1].findings) = {}

C15_WitnessInvalid ==
    /\ ParsedBy("parse_json")
    /\ fmtRaw = PR_JsonTrailingComma
    /\ ~from_str(fmtRaw).ok
    /\ parseResult[1].structured.o[<<"r", "a", "w">>].s = fmtRaw
    /\ Len(parseResult[1].findings) = 1

\* C16: every extractor is total: for every (raw text, command), the empty
\* text, rows with too few columns and numbers that do not parse or are out
\* of range included, parse_intelligently returns a ParsedOutput and never
\* panics.
C16_ExtractorsTotal ==
    parseResult # None => ~parseResult[1].panicked

Displayed == displayResult # None /\ ~displayResult[1].panicked

\* The rows of a disk-usage record that get a finding, in row order.
PromotedRows(structured) ==
    SelectSeq(structured.filesystems, LAMBDA entry : entry.usage_percent > 80)

InRowOrder(structured, findings) ==
    /\ Len(findings) = Len(PromotedRows(structured))
    /\ \A j \in 1..Len(findings) :
           findings[j].message = RowMessage(PromotedRows(structured)[j])

\* C17: the findings of a ParsedOutput are in the order in which the
\* extractor's scan produced them, and the response built from it by
\* from_command_output carries the same list: nothing is reordered, dropped
\* or inserted; disk-usage findings are in row order even when a High row
\* comes before a Critical row.
C17_FindingsInScanOrder ==
    /\ Displayed =>
          /\ displayResult[1].findings = displayResult[1].parsed[1].findings
          /\ displayResult[1].parsed[1].extractor = "parse_disk_usage" =>
                InRowOrder(displayResult[1].structured, displayResult[1].findings)
    /\ ParsedBy("parse_disk_usage") =>
          InRowOrder(parseResult[1].structured, parseResult[1].findings)

\* The response for rows 85, 95, 80, 90, 91, 81: a High finding first.
C17_Witness ==
    /\ Displayed
    /\ fmtRaw = PR_DfBounds
    /\ fmtCmd = PC_DfH
    /\ [j \in 1..Len(displayResult[1].findings) |-> displayResult[1].findings[j].importance]
         = <<"High", "Critical", "High", "Critical", "High">>

\* The number of lines of a text: its line feeds, and the unterminated last
\* line if there is one.
LineCount(text) ==
    Cardinality({i \in 1..Len(text) : text[i] = LF})
        + (IF text # <<>> /\ text[Len(text)] # LF THEN 1 ELSE 0)

\* The length of a text in bytes of UTF-8.
ByteCount(text) ==
    Cardinality({i \in 1..Len(text) : ByteWidth(text[i]) = 1})
        + 3 * Cardinality({i \in 1..Len(text) : ByteWidth(text[i]) = 3})

\* C18: for every (raw text, command) the metadata of the result of
\* parse_intelligently is what was computed before the extractor was chosen,
\* whichever extractor ran: line_count is the number of lines of the raw
\* text, byte_count its length in bytes, format_detected the result of
\* detect_format, and raw is the input text unchanged.
C18_MetadataUnchanged ==
    Parsed =>
        /\ parseResult[1].metadata.line_count = LineCount(fmtRaw)
        /\ parseResult[1].metadata.byte_count = ByteCount(fmtRaw)
        /\ parseResult[1].metadata.duration_ms = None
        /\ parseResult[1].metadata.format_detected = DetectFormat(fmtRaw, fmtCmd)
        /\ parseResult[1].raw = fmtRaw

\* Three lines ending in CR LF, the last one empty, through parse_generic.
C18_Witness ==
    /\ ParsedBy("parse_generic")
    /\ fmtRaw = PR_CrLf
    /\ parseResult[1].metadata = Metadata(3, 8, "plain_text")
    /\ parseResult[1].raw = PR_CrLf

\* A line with three-byte characters through parse_disk_usage.
C18_WitnessGlyph ==
    /\ ParsedBy("parse_disk_usage")
    /\ fmtRaw = PR_Glyph
    /\ parseResult[1].metadata = Metadata(1, 15, "disk_usage")

\* The step is close_session answering an explicit request to destroy s.
ExplicitDestroy(s) ==
    /\ pc = "dispatch"
    /\ request[1].action = "close_session"
    /\ OrDefault(request[1].session, default_session) = s

\* C19: no step of the daemon destroys a session as a side effect: a
\* session that exists before a step of execute, execute_and_wait,
\* execute_analyzed, capture, capture_analyzed, wait_for_prompt,
\* check_session or any other step still exists after it, unless the step is
\* close_session handling an explicit request to destroy that session.
C19_NoSessionDestroyed ==
    [][\A s \in sessions : s \in sessions' \/ ExplicitDestroy(s)]_vars

\* capture_analyzed has answered with an error for a failed capture, and
\* both sessions, created by earlier requests, are still there.
C19_Witness ==
    /\ pc = "closed"
    /\ request # None
    /\ request[1].action = "capture_analyzed"
    /\ sessions = {default_session, "work"}
    /\ Len(written) = 1
    /\ written[1].type = "DisplayOutput"
    /\ written[1].status = "error"

ApiCallReturned(op) == wp.pc = "api_returned" /\ wp.returned_at = op

\* C19 for the calls of tmux.rs and batch.rs: a session disappears only in a
\* step of Session::kill on that session.
C19_SessionApi ==
    [][\A s \in sessions :
          s \in sessions' \/ (wp'.returned_at = "kill" /\ wp'.session = s)]_vars

\* C20: creating a session is idempotent in effect: a create on a name
\* whose session exists is not an error (the only error is that tmux could
\* not be run) and leaves the session there, so create after create gives
\* the result of a single create; the same for Session::ensure_exists.
C20_CreateIdempotent ==
    /\ (ApiCallReturned("ensure_exists") /\ wp.session \in sessions) => wp_result[1].ok
    /\ (ApiCallReturned("new_session") /\ wp.session \in sessions) =>
          \/ wp_result[1].ok
          \/ wp_result[1] = Err("new-session failed")

(***************************************************************************)
(* C21.  has_session never fails: for every session name it is a boolean,  *)
(* false when the session does not exist and false when tmux cannot be     *)
(* run; a check_session request is therefore always answered with          *)
(* exists = that boolean and never with an error.                          *)
(***************************************************************************)
ProbedNames == SessionNames \cup {"nonexistent_session_xyz123"}

CheckSessionAnswered ==
    /\ pc = "closed"
    /\ request # None
    /\ request[1].action = "check_session"
    /\ steps = <<"has_session">>

C21_HasSessionTotal ==
    /\ \A s \in ProbedNames :
          /\ has_session(s) \in BOOLEAN
          /\ s \notin sessions => has_session(s) = FALSE
          /\ ~tmux_installed => has_session(s) = FALSE
    /\ CheckSessionAnswered =>
          /\ Len(written) = 1
          /\ written[1].error = None
          /\ written[1].exists \in {Some(TRUE), Some(FALSE)}
          /\ written[1].exists = Some(default_session \in sessions /\ tmux_installed)

\* check_session answered exists = false because tmux cannot be run.
C21_Witness ==
    /\ CheckSessionAnswered
    /\ ~tmux_installed
    /\ written = <<response_exists(FALSE)>>

\* check_session answered exists = false with tmux present and no session.
C21_WitnessNoSession ==
    /\ CheckSessionAnswered
    /\ tmux_installed
    /\ default_session \notin sessions
    /\ written = <<response_exists(FALSE)>>

(***************************************************************************)
(* C22.  Captured bytes that are not valid text are rejected or flagged    *)
(* on every capture path: no answer reports success for, or analyses, a    *)
(* text in which the invalid bytes were replaced.  No capture of the model *)
(* holds U+FFFD itself, so a replacement character in an answer comes      *)
(* from a lossy conversion.                                                *)
(***************************************************************************)
HasReplacement(text) == \E i \in 1..Len(text) : text[i] = ReplacementChar

SilentlyReplaced(resp) ==
    IF resp.type = "Response"
    THEN resp.success /\ resp.error = None /\ resp.output # None
         /\ HasReplacement(resp.output[1])
    ELSE resp.success /\ HasReplacement(resp.raw_output)

C22_InvalidBytesRejected ==
    /\ \A i \in 1..Len(written) : ~SilentlyReplaced(written[i])
    /\ wait_result # None =>
          (wait_result[1].output # None => ~HasReplacement(wait_result[1].output[1]))

(***************************************************************************)
(* C23.  The daemon serves connections strictly one at a time: a           *)
(* connection is accepted only when no handler is running, the request of  *)
(* the previous connection, if one was read, has then been answered, a     *)
(* completion wait belongs to the connection being served and is the only  *)
(* one, and keys are sent to a session only by the handler of the          *)
(* connection being served, never during a wait.                           *)
(***************************************************************************)
Accepting == pc # "read" /\ pc' = "read"

WaitInFlight == pc \in {"wait", "waited"}

C23_OneConnectionAtATime ==
    [][/\ Accepting =>
            /\ pc \in {"listen", "closed"}
            /\ ~WaitInFlight
            /\ request # None => Len(written) = 1
       /\ WaitInFlight =>
            /\ request # None
            /\ request[1].action = wait.caller
            /\ stream_open
            /\ written = <<>>
            /\ ~Accepting
            /\ sent' = sent
            /\ wait'.session = wait.session
       /\ (sent' # sent /\ ~Accepting) => pc = "dispatch"]_vars

\* A wait is running for a later connection than the one that created the
\* session work: two connections were served, the second is waiting.
C23_Witness ==
    /\ pc = "wait"
    /\ "work" \in sessions
    /\ wait.session = default_session
    /\ wait.stable_count = 2
    /\ sent # <<>>

(***************************************************************************)
(* C24.  The response builders keep success, output and error consistent:  *)
(* success(text) has success = true, output = text and no error;           *)
(* error(msg) has success = false, error = msg and no output; exists(b)    *)
(* has exists = b.  Hence no response built by them has both an output     *)
(* and an error, and an error set by error() comes with success = false.   *)
(***************************************************************************)
BuilderMessages == {"spawn_error", "Session not found or already closed", ""}

\* The answers of every action but wait_for_prompt, whose Response is
\* written out field by field in wait_for_command_completion.
BuiltByBuilders(resp) ==
    /\ resp.type = "Response"
    /\ wait.caller # "wait_for_prompt"

C24_BuildersConsistent ==
    /\ \A text \in Captures :
          /\ response_success(text).success = TRUE
          /\ response_success(text).output = Some(text)
          /\ response_success(text).error = None
    /\ \A msg \in BuilderMessages :
          /\ response_error(msg).success = FALSE
          /\ response_error(msg).error = Some(msg)
          /\ response_error(msg).output = None
    /\ \A b \in BOOLEAN : response_exists(b).exists = Some(b)
    /\ \A i \in 1..Len(written) :
          BuiltByBuilders(written[i]) =>
             /\ ~(written[i].output # None /\ written[i].error # None)
             /\ written[i].error # None => written[i].success = FALSE

\* An execute request refused by the validation was answered by error().
C24_Witness ==
    /\ pc = "closed"
    /\ request # None
    /\ request[1].action = "execute"
    /\ Len(written) = 1
    /\ written[1].error # None
    /\ written[1].success = FALSE
    /\ written[1].output = None

\* A capture request was answered by success(text).
C24_WitnessSuccess ==
    /\ pc = "closed"
    /\ request # None
    /\ request[1].action = "capture"
    /\ written = <<response_success(CapPrompt)>>

(***************************************************************************)
(* C25.  After every successful capture in the detector loop: if the       *)
(* capture equals the previous text, stableCount increases by 1 and the    *)
(* previous text is unchanged; otherwise stableCount becomes 0 and the     *)
(* previous text becomes the capture.  Hence the previous text is the last *)
(* successful capture and stableCount counts captures, at most one per     *)
(* poll.                                                                   *)
(***************************************************************************)
SuccessfulPoll ==
    /\ pc = "wait"
    /\ wait'.elapsed # wait.elapsed
    /\ poll'.kind = "ok"

PollsDone(w) == w.elapsed \div w.check_interval

C25_StabilityRule ==
    [][/\ SuccessfulPoll =>
            IF poll'.text = wait.last_output
            THEN /\ wait'.stable_count = wait.stable_count + 1
                 /\ wait'.last_output = wait.last_output
            ELSE /\ wait'.stable_count = 0
                 /\ wait'.last_output = poll'.text
       /\ SuccessfulPoll =>
            /\ captured' = Some(wait'.last_output)
            /\ wait'.stable_count <= PollsDone(wait')
       /\ (pc = "wait" /\ pc' = "wait" /\ ~SuccessfulPoll) =>
            /\ wait'.stable_count = wait.stable_count
            /\ wait'.last_output = wait.last_output]_vars

\* Five polls in, the last one successful: the text changed to the prompt
\* capture (the count was reset) and was then seen twice more.
C25_Witness ==
    /\ pc = "wait"
    /\ poll.kind = "ok"
    /\ wait.stable_count = 2
    /\ wait.last_output = CapPrompt
    /\ captured = Some(CapPrompt)
    /\ PollsDone(wait) = 5

\* The same rule in tmux.rs wait_for_prompt (lines 93-102).
C25_WaitForPromptRule ==
    [][(wp.pc = "loop" /\ wp'.iteration = wp.iteration + 1
        /\ wp'.returned_at # "capture_error") =>
            \/ /\ wp'.stable_count = wp.stable_count + 1
               /\ wp'.previous_output = wp.previous_output
            \/ /\ wp'.stable_count = 0
               /\ wp'.previous_output # wp.previous_output]_vars

(***************************************************************************)
(* C26.  The journalctl extractor reports error_count and warning_count    *)
(* as the full numbers of matching lines, while errors and warnings hold   *)
(* the first 10 of them in input order; a line counts as an error or as a  *)
(* warning, never as both; failed_services has no duplicates; a High       *)
(* finding is produced iff errors is non-empty and a Medium finding iff    *)
(* warnings is non-empty.                                                  *)
(***************************************************************************)
MentionsError(line) ==
    \E word \in {S_error, S_failed, S_fail} : Contains(ToLowercase(line), word)

MentionsWarning(line) ==
    \E word \in {S_warning, S_warn} : Contains(ToLowercase(line), word)

ErrorRows(lines) == {i \in 1..Len(lines) : MentionsError(lines[i])}

WarningRows(lines) ==
    {i \in 1..Len(lines) : MentionsWarning(lines[i]) /\ ~MentionsError(lines[i])}

\* the j-th smallest element of a set of row numbers
NthRow(rows, j) == CHOOSE i \in rows : Cardinality({k \in rows : k <= i}) = j

FirstTenOf(lines, rows, list) ==
    /\ Len(list) = Min(Cardinality(rows), 10)
    /\ \A j \in 1..Len(list) : list[j] = lines[NthRow(rows, j)]

HasFinding(findings, importance) ==
    \E i \in 1..Len(findings) : findings[i].importance = importance

JournalRecord(lines, structured, findings) ==
    /\ structured.error_count = Cardinality(ErrorRows(lines))
    /\ structured.warning_count = Cardinality(WarningRows(lines))
    /\ structured.error_count + structured.warning_count =
          Cardinality({i \in 1..Len(lines) :
                          MentionsError(lines[i]) \/ MentionsWarning(lines[i])})
    /\ FirstTenOf(lines, ErrorRows(lines), structured.errors)
    /\ FirstTenOf(lines, WarningRows(lines), structured.warnings)
    /\ \A i, j \in 1..Len(structured.failed_services) :
          structured.failed_services[i] = structured.failed_services[j] => i = j
    /\ HasFinding(findings, "High") <=> structured.errors # <<>>
    /\ HasFinding(findings, "Medium") <=> structured.warnings # <<>>

C26_JournalCounts ==
    ParsedBy("parse_journalctl") =>
        JournalRecord(Lines(fmtRaw), parseResult[1].structured, parseResult[1].findings)

\* 14 error lines and 12 warning lines: the counts are full, the lists hold 10.
C26_Witness ==
    /\ ParsedBy("parse_journalctl")
    /\ fmtRaw = PR_JournalMany
    /\ parseResult[1].structured.error_count = 14
    /\ parseResult[1].structured.warning_count = 12
    /\ Len(parseResult[1].structured.errors) = 10
    /\ Len(parseResult[1].structured.warnings) = 10
    /\ parseResult[1].structured.failed_services = <<<<"a">>>>

\* Warnings and no errors: a Medium finding and no High one.
C26_WitnessWarningsOnly ==
    /\ ParsedBy("parse_journalctl")
    /\ parseResult[1].structured.error_count = 0
    /\ parseResult[1].structured.warning_count > 0
    /\ HasFinding(parseResult[1].findings, "Medium")
    /\ ~HasFinding(parseResult[1].findings, "High")

(***************************************************************************)
(* C27.  In wait_for_command_completion a poll whose capture fails (the    *)
(* capture command cannot run, exits with failure, or returns bytes that   *)
(* are not valid UTF-8) changes neither stableCount nor the previous text  *)
(* and does not end the wait; identical captures separated by failed polls *)
(* still count towards stability; if every capture fails the invocation    *)
(* ends in TimedOut with empty text rather than in a backend error.        *)
(***************************************************************************)
FailedPoll ==
    /\ pc = "wait"
    /\ wait'.elapsed # wait.elapsed
    /\ poll'.kind \in CaptureFailures

TimedOutWith(text) ==
    Some(Response(FALSE, Some(text), Some("Command timeout - may still be running"),
                  Some(FALSE)))

C27_FailedPollSkipped ==
    [][/\ FailedPoll =>
            /\ wait'.stable_count = wait.stable_count
            /\ wait'.last_output = wait.last_output
            /\ captured' = captured
            /\ pc' = "wait"
            /\ wait_result' = None
       /\ (pc' = "waited" /\ captured' = None) => wait_result' = TimedOutWith(<<>>)]_vars

\* The sixth poll failed after captures that had brought the count to 2 on
\* the prompt text: the count is still 2 and the wait goes on.
C27_Witness ==
    /\ pc = "wait"
    /\ poll.kind = "invalid_utf8"
    /\ wait.stable_count = 2
    /\ wait.last_output = CapPrompt
    /\ PollsDone(wait) = 6

\* Every capture failed: the wait timed out with empty text.
C27_WitnessAllFailed ==
    /\ pc = "waited"
    /\ captured = None
    /\ poll.kind = "spawn_error"
    /\ PollsDone(wait) >= 2
    /\ wait_result = TimedOutWith(<<>>)

(***************************************************************************)
(* C28 as stated.  wait_for_command_completion returns Stable at the       *)
(* earliest on the fourth capture of the same text, so not before 4 poll   *)
(* intervals have elapsed, and an invocation whose effective maximum wait  *)
(* is shorter than 4 poll intervals always ends in TimedOut.               *)
(***************************************************************************)
WaitReturned == pc = "waited" /\ wait_result # None

C28_ShortWaitTimesOut ==
    /\ ReturnedStable =>
          /\ PollsDone(wait) >= 4
          /\ wait.elapsed >= 4 * wait.check_interval
    /\ (WaitReturned /\ wait.max_duration < 4 * wait.check_interval) =>
          ~wait_result[1].success

(***************************************************************************)
(* C28, amended.  Stable is returned at the earliest on the fourth         *)
(* capture of the same, non-empty text (stableCount 3), so not before 4    *)
(* poll intervals have elapsed; an invocation whose effective maximum      *)
(* wait is at most 3 poll intervals (max_wait = 0 among them, which        *)
(* returns without any capture) always ends in TimedOut.  The loop tests   *)
(* the clock before each poll only: a maximum wait between 3 and 4         *)
(* intervals still starts a fourth poll.                                   *)
(***************************************************************************)
C28_StableNotBeforeFourthCapture ==
    /\ ReturnedStable =>
          /\ PollsDone(wait) >= 4
          /\ wait.elapsed >= 4 * wait.check_interval
          /\ wait.stable_count >= required_stable_checks
          /\ wait.last_output # <<>>
          /\ wait_result[1].output = Some(wait.last_output)
    /\ (WaitReturned /\ wait.max_duration <= 3 * wait.check_interval) =>
          ~wait_result[1].success
    /\ (WaitReturned /\ wait.max_duration = 0) =>
          /\ wait.elapsed = 0
          /\ captured = None
          /\ wait_result = TimedOutWith(<<>>)

\* Stable on the fourth poll, the earliest there is.
C28_Witness ==
    /\ ReturnedStable
    /\ PollsDone(wait) = 4
    /\ wait.stable_count = 3

\* max_wait = 0: TimedOut without any capture.
C28_WitnessZero ==
    /\ WaitReturned
    /\ wait.max_duration = 0
    /\ wait.elapsed = 0
    /\ ~wait_result[1].success

\* Stable after the maximum wait: 3600 s allowed, polls 1000 s apart.
C28_WitnessLate ==
    /\ ReturnedStable
    /\ wait.max_duration < 4 * wait.check_interval
    /\ wait.elapsed > wait.max_duration

(***************************************************************************)
(* C29.  When the execute action is given a command that is missing,       *)
(* blank, contains a null byte, is longer than 8192 bytes, or contains     *)
(* (case-insensitively) a denylisted pattern, it answers with an error and *)
(* has no effect on the backend: no session is created and nothing is      *)
(* sent to any session.                                                    *)
(***************************************************************************)
Denylisted(command) ==
    \E pattern \in dangerous_patterns : Contains(ToLowercase(command), pattern)

Refused(command) ==
    \/ command = None
    \/ /\ command # None
       /\ \/ \A i \in 1..Len(command[1]) : command[1][i] \in Whitespace
          \/ NUL \in {command[1][i] : i \in 1..Len(command[1])}
          \/ ByteLen(command[1]) > 8192
          \/ Denylisted(command[1])

ExecuteOfRefused ==
    /\ pc = "dispatch"
    /\ request[1].action = "execute"
    /\ Refused(request[1].command)

C29_RefusedExecuteHasNoEffect ==
    [][ExecuteOfRefused =>
          /\ sessions' = sessions
          /\ sent' = sent
          /\ tmux_installed' = tmux_installed
          /\ Len(written') = 1
          /\ written'[1].type = "Response"
          /\ written'[1].success = FALSE
          /\ written'[1].error # None
          /\ written'[1].output = None
          /\ \A i \in 1..Len(steps') : steps'[i] \notin {"new_session", "send_keys"}]_vars

RefusedAnswered(command) ==
    /\ pc = "closed"
    /\ request # None
    /\ request[1].action = "execute"
    /\ request[1].command = Some(command)
    /\ Len(written) = 1
    /\ written[1].error # None
    /\ sent = <<>>

\* The pattern in capitals was refused; the session asked for was not created.
C29_Witness ==
    /\ RefusedAnswered(CmdRmUpper)
    /\ request[1].session = Some("work")
    /\ "work" \notin sessions
    /\ tmux_installed

\* 8193 bytes in 2731 characters, and a null byte.
C29_WitnessLong == RefusedAnswered(CmdLong) /\ tmux_installed

C29_WitnessNul == RefusedAnswered(CmdNul) /\ tmux_installed

(***************************************************************************)
(* C30.  execute_batch sends the commands to the session strictly in       *)
(* array order, one after the other, and a command whose send fails does   *)
(* not stop the batch; at the end successful + failed equals the number of *)
(* entries in result.commands, which is the number of string commands that *)
(* are non-empty once trimmed and is at most total_commands; each entry's  *)
(* index is its 1-based position in the input array; successful counts     *)
(* exactly the entries with status "success".                              *)
(***************************************************************************)
BatchReturned ==
    /\ wp.pc = "api_returned"
    /\ wp.returned_at = "execute_batch"
    /\ wp_result # None
    /\ wp_result[1].ok

IsCommand(entry) ==
    entry # None /\ \E i \in 1..Len(entry[1]) : entry[1][i] \notin Whitespace

CommandRows(arr) == {i \in 1..Len(arr) : IsCommand(arr[i])}

WithStatus(entries, status) == {j \in 1..Len(entries) : entries[j].status = status}

Succeeded(entry) == entry.status = "success"

BatchConsistent(arr, session, result, keys) ==
    /\ result.total_commands = Len(arr)
    /\ Len(result.commands) = Cardinality(CommandRows(arr))
    /\ Len(result.commands) <= result.total_commands
    /\ result.successful + result.failed = Len(result.commands)
    /\ result.successful = Cardinality(WithStatus(result.commands, "success"))
    /\ result.failed = Cardinality(WithStatus(result.commands, "error"))
    /\ \A j \in 1..Len(result.commands) :
          /\ result.commands[j].index = NthRow(CommandRows(arr), j)
          /\ result.commands[j].command = Trim(arr[result.commands[j].index][1])
          /\ result.commands[j].success = (result.commands[j].status = "success")
    /\ Len(keys) = result.successful
    /\ \A k \in 1..Len(keys) :
          /\ keys[k].session = session
          /\ keys[k].command = SelectSeq(result.commands, Succeeded)[k].command

C30_BatchCounts ==
    BatchReturned => BatchConsistent(wp.commands, wp.session, wp_result[1].value, sent)

\* [rm -rf /, not a string, " df "]: the first send failed, the third command
\* was still sent; two entries, with indices 1 and 3.
C30_Witness ==
    /\ BatchReturned
    /\ wp.commands = <<Some(CmdRm), None, Some(CmdPadded)>>
    /\ wp_result[1].value.total_commands = 3
    /\ wp_result[1].value.failed = 1
    /\ wp_result[1].value.successful = 1
    /\ Len(wp_result[1].value.commands) = 2
    /\ wp_result[1].value.commands[1].index = 1
    /\ wp_result[1].value.commands[1].status = "error"
    /\ wp_result[1].value.commands[2].index = 3
    /\ wp_result[1].value.commands[2].status = "success"
    /\ sent = <<[session |-> wp.session, command |-> CmdDf]>>

\* Three commands sent in array order.
C30_WitnessOrder ==
    /\ BatchReturned
    /\ wp.commands = <<Some(CmdPadded), Some(CmdRm), Some(CmdPadded)>>
    /\ sent = <<[session |-> "work", command |-> CmdDf],
                [session |-> "work", command |-> CmdRm],
                [session |-> "work", command |-> CmdDf]>>

====
